---- MODULE Spec2Model ----
(***************************************************************************)
(* Verification model of the prompt_gen collaboration state machine.       *)
(*                                                                         *)
(* Modelled code:                                                          *)
(*   backend/src/agents/orchestration_engine.py  AgentOrchestrationEngine  *)
(*   backend/src/agents/interfaces.py            BaseAgent.process         *)
(*   backend/src/agents/team_lead.py             TeamLeadAgent             *)
(*   backend/src/agents/technical_developer.py   TechnicalDeveloperAgent   *)
(*   backend/src/agents/message_formatter.py     MessageFormatter          *)
(*   backend/src/services/database_service.py    create_agent_message      *)
(*   backend/src/repositories/message_repository.py                        *)
(*                                                                         *)
(* Name resolution.  orchestration_engine.py calls Message(...) (line 465) *)
(* and re.search (line 554) without importing either name.  The model      *)
(* binds Message to interfaces.Message (interfaces.py:65) and re to the    *)
(* standard module, the only definitions those calls fit.  Read literally  *)
(* both calls raise NameError, so no turn is ever recorded and no session  *)
(* is ever finalized; every property below is about the engine with the    *)
(* two names bound.                                                        *)
(*                                                                         *)
(* Text.  The language model's output is opaque.  A text is modelled by    *)
(* the features the code reads from it: the set of indicator phrases that  *)
(* occur in it as substrings (kw), whether it contains "requirements"      *)
(* (reqs), and the shape of its "Final Prompt" section (fp).               *)
(*                                                                         *)
(* Timestamps (created_at, completed_at, per-output timestamp) and the     *)
(* text of a recorded message are not modelled.                            *)
(*                                                                         *)
(* Scope.  Advance calls overlap each other freely (up to MaxInFlight);    *)
(* a start overlaps no other call of its session.                          *)
(***************************************************************************)
EXTENDS Naturals, Integers, Sequences, FiniteSets, Bags, TLC

\* ------------------------------------------------------------------ bounds
\* engine calls that may be suspended at their await at the same time
MaxInFlight == 2
\* cap on the length of a session's conversation_history
MaxTurns == 4
\* cap on the length of a session's supplementary_inputs
MaxInputs == 2
\* largest max_iterations a caller passes to start
MaxMaxIterations == 2
\* number of indicator phrases in one modelled text
MaxKeywords == 3
\* cap on the rows of agent_messages
MaxRows == 4
\* create_agent_message calls that may be between their two awaits at once
MaxDbInFlight == 2

\* ------------------------------------------------------- OrchestrationState
INITIALIZING == "initializing"
REQUIREMENTS_ANALYSIS == "requirements_analysis"
TECHNICAL_DESIGN == "technical_design"
TEAM_LEAD_REVIEW == "team_lead_review"
FEEDBACK_PROCESSING == "feedback_processing"
FINAL_APPROVAL == "final_approval"
COMPLETED == "completed"
FAILED == "failed"

OrchestrationState ==
  { INITIALIZING, REQUIREMENTS_ANALYSIS, TECHNICAL_DESIGN, TEAM_LEAD_REVIEW,
    FEEDBACK_PROCESSING, FINAL_APPROVAL, COMPLETED, FAILED }

\* ------------------------------------------------------------- AgentType
PRODUCT_MANAGER == "product_manager"
TECHNICAL_DEVELOPER == "technical_developer"
TEAM_LEAD == "team_lead"

AgentType == { PRODUCT_MANAGER, TECHNICAL_DEVELOPER, TEAM_LEAD }

\* ------------------------------------------------------------ MessageType
REQUIREMENT == "requirement"
TECHNICAL_SOLUTION == "technical_solution"
REVIEW == "review"
APPROVAL == "approval"
REJECTION == "rejection"
CLARIFICATION == "clarification"
QUESTION == "question"
ERROR == "error"

MessageType ==
  { REQUIREMENT, "solution", TECHNICAL_SOLUTION, REVIEW, APPROVAL, REJECTION,
    CLARIFICATION, QUESTION, ERROR }

\* ------------------------------------------------------------------- text
\* team_lead.py:427-431
approval_indicators ==
  { "approve", "approved", "approval", "accept", "accepted", "good to go",
    "ready for implementation", "implement", "proceed", "move forward",
    "excellent", "perfect", "well done", "great job" }

\* team_lead.py:434-438
rejection_indicators ==
  { "reject", "rejected", "rejection", "not ready", "needs work",
    "inadequate", "insufficient", "missing", "incomplete", "unclear",
    "rethink", "redo", "start over", "major issues" }

\* team_lead.py:445-448
question_indicators ==
  { "question", "clarify", "explain", "elaborate", "more detail",
    "unclear", "confusing", "what", "how", "why", "when", "where" }

\* team_lead.py:466-469
strong_rejection_indicators ==
  { "cannot approve", "strongly reject", "major issues", "fundamental problems",
    "completely inadequate", "not acceptable", "serious concerns" }

\* The indicator phrases that are substrings of phrase k: a text that
\* contains k contains them too ("x in content_lower" is substring search).
Substrings(k) ==
  CASE k = "approved"                 -> { "approve" }
    [] k = "cannot approve"           -> { "approve" }
    [] k = "rejected"                 -> { "reject" }
    [] k = "rejection"                -> { "reject" }
    [] k = "strongly reject"          -> { "reject" }
    [] k = "accepted"                 -> { "accept" }
    [] k = "not acceptable"           -> { "accept" }
    [] k = "ready for implementation" -> { "implement" }
    [] k = "completely inadequate"    -> { "inadequate" }
    [] OTHER                          -> {}

\* The phrases found in a text into which the phrases of S were written.
Contained(S) == S \cup UNION { Substrings(k) : k \in S }

\* The phrases the modelled texts are written from (a sample of the lists).
PhrasePool ==
  { "approve", "approved", "reject", "major issues", "cannot approve",
    "unclear", "what", "how", "why" }

\* Shape of the first "Final Prompt" heading of a text: none, followed
\* by prompt text, or followed by nothing the pattern captures.
FinalPromptShape == { "none", "text", "blank" }

\* The texts an agent's generation call may return.
Texts ==
  { [kw |-> Contained(S), reqs |-> rq, fp |-> f] :
      S \in { T \in SUBSET PhrasePool : Cardinality(T) <= MaxKeywords },
      rq \in BOOLEAN, f \in FinalPromptShape }

\* A classifier that applies the QUESTION rule before the APPROVAL rule.
analyze_decision_type_question_first(content, current_iteration, max_iterations) ==
  LET approval_count == Cardinality(content.kw \cap approval_indicators)
      rejection_count == Cardinality(content.kw \cap rejection_indicators)
      question_count == Cardinality(content.kw \cap question_indicators)
  IN  IF rejection_count > approval_count THEN REJECTION
      ELSE IF question_count > 2 \/ current_iteration < max_iterations - 1 THEN QUESTION
      ELSE IF approval_count > rejection_count /\ approval_count > 0 THEN APPROVAL
      ELSE REVIEW

\* A classifier whose QUESTION rule looks at the question count alone.
analyze_decision_type_by_question_count(content, current_iteration, max_iterations) ==
  LET approval_count == Cardinality(content.kw \cap approval_indicators)
      rejection_count == Cardinality(content.kw \cap rejection_indicators)
      question_count == Cardinality(content.kw \cap question_indicators)
  IN  IF rejection_count > approval_count THEN REJECTION
      ELSE IF approval_count > rejection_count /\ approval_count > 0 THEN APPROVAL
      ELSE IF question_count > 2 THEN QUESTION
      ELSE REVIEW

\* TeamLeadAgent._analyze_decision_type
analyze_decision_type(content, current_iteration, max_iterations) ==
  LET approval_count == Cardinality(content.kw \cap approval_indicators)
      rejection_count == Cardinality(content.kw \cap rejection_indicators)
      question_count == Cardinality(content.kw \cap question_indicators)
  IN  IF rejection_count > approval_count THEN REJECTION
      ELSE IF approval_count > rejection_count /\ approval_count > 0 THEN APPROVAL
      ELSE IF question_count > 2 \/ current_iteration < max_iterations - 1 THEN QUESTION
      ELSE REVIEW

\* A final decision that rejects on any rejection indicator, not only on a
\* strong one.
force_final_decision_on_any_rejection(content) ==
  IF content.kw \cap rejection_indicators # {} THEN REJECTION ELSE APPROVAL

\* TeamLeadAgent._force_final_decision
force_final_decision(content) ==
  IF content.kw \cap strong_rejection_indicators # {} THEN REJECTION ELSE APPROVAL

\* --------------------------------------------------------- MessageFormatter
\* A formatted content: what the engine later reads from it.  kind is the
\* formatter that produced it.

\* MessageFormatter.format_review: "# Review", the text, and a "## Summary"
\* paragraph; neither adds "requirements" nor a "Final Prompt" heading.
format_review(review) ==
  [kind |-> "review", reqs |-> review.reqs, fp |-> review.fp]

\* MessageFormatter.format_approval: appends "This proposal meets all
\* requirements ..." and, on the last iteration, a "# Final Prompt" section;
\* a heading that ended the text is now followed by the appended sentence.
format_approval(approval, current_iteration, max_iterations) ==
  [kind |-> "approval", reqs |-> TRUE,
   fp |-> IF approval.fp = "blank" THEN "text"
          ELSE IF approval.fp = "none" /\ current_iteration >= max_iterations - 1
               THEN "text"
          ELSE approval.fp]

\* MessageFormatter.format_rejection: the text followed by "I cannot approve
\* this approach ..." and "## Required Changes".
format_rejection(rejection) ==
  [kind |-> "rejection", reqs |-> rejection.reqs,
   fp |-> IF rejection.fp = "blank" THEN "text" ELSE rejection.fp]

\* The fixed sentence an agent returns from its except branch.
ErrorContent == [kind |-> "error", reqs |-> FALSE, fp |-> "none"]

\* The content of a Product Manager or Technical Developer turn: the engine
\* stores it and never reads it.
OpaqueContent == [kind |-> "plain", reqs |-> FALSE, fp |-> "none"]

\* team_lead_output.get("content", "") when there is no team_lead output
EmptyContent == [kind |-> "empty", reqs |-> FALSE, fp |-> "none"]

\* AgentOrchestrationEngine._extract_final_prompt: the section text when the
\* pattern matches (the empty string when the heading ends the content),
\* otherwise the lines left after dropping the header lines, otherwise the
\* content itself.
extract_final_prompt(approval_content) ==
  IF approval_content.fp = "text" THEN "section"
  ELSE IF approval_content.fp = "blank" THEN ""
  ELSE IF approval_content.kind = "empty" THEN ""
  ELSE "core"

\* ------------------------------------------------------------------ agents
\* An AgentResponse.  failed marks the response built by the agent's except
\* branch; confidence is "parsed" when it is the parser's score.  Of the
\* keys of metadata only "error" is modelled; the constructor is called
\* without it everywhere but in the except branch of BaseAgent.process.
Response(mt, rui, c, conf, f) ==
  [message_type |-> mt, requires_user_input |-> rui, content |-> c,
   confidence |-> conf, failed |-> f, metadata |-> {}]

\* The response of the except branch of BaseAgent.process:
\* metadata={"error": str(e)}
BaseAgentErrorResponse ==
  [Response(REVIEW, FALSE, ErrorContent, "0.0", TRUE) EXCEPT !.metadata = { "error" }]

\* GLMResponseParser.response_patterns['product_manager']: the message
\* types _extract_message_type returns for a Product Manager text; a text
\* matching no pattern makes ParsedAgentResponse(content=...) raise.
ProductManagerTypes == { REQUIREMENT, CLARIFICATION, APPROVAL }

\* BaseAgent.process, as run by ProductManagerAgent
ProductManagerResponses ==
  { Response(mt, FALSE, OpaqueContent, "parsed", FALSE) : mt \in ProductManagerTypes }
  \cup { BaseAgentErrorResponse }

\* TechnicalDeveloperAgent.process
TechnicalDeveloperResponses ==
  { Response(TECHNICAL_SOLUTION, FALSE, OpaqueContent, "parsed", FALSE),
    Response(ERROR, FALSE, ErrorContent, "0.1", TRUE) }

\* TeamLeadAgent._handle_initial_review / _handle_intermediate_review
handle_review(text, current_iteration, max_iterations) ==
  LET decision_type == analyze_decision_type(text, current_iteration, max_iterations)
  IN  Response(decision_type, decision_type = REJECTION, format_review(text),
               "parsed", FALSE)

\* TeamLeadAgent._handle_final_approval
handle_final_approval(text, current_iteration, max_iterations) ==
  LET decision_type == force_final_decision(text)
  IN  Response(decision_type, FALSE,
               IF decision_type = APPROVAL
               THEN format_approval(text, current_iteration, max_iterations)
               ELSE format_rejection(text),
               "parsed", FALSE)

\* TeamLeadAgent.process on a generated text
team_lead_process(text, current_iteration, max_iterations) ==
  IF current_iteration = 0
  THEN handle_review(text, current_iteration, max_iterations)
  ELSE IF current_iteration >= max_iterations - 1
  THEN handle_final_approval(text, current_iteration, max_iterations)
  ELSE handle_review(text, current_iteration, max_iterations)

\* TeamLeadAgent.process: every response it can return, for each context
TeamLeadResponses ==
  [current_iteration \in 0..MaxTurns, max_iterations \in 1..MaxMaxIterations |->
     { team_lead_process(t, current_iteration, max_iterations) : t \in Texts }
     \cup { Response(ERROR, FALSE, ErrorContent, "0.1", TRUE) }]

\* next_agent.process(context)
AgentResponses(agent, current_iteration, max_iterations) ==
  CASE agent = PRODUCT_MANAGER -> ProductManagerResponses
    [] agent = TECHNICAL_DEVELOPER -> TechnicalDeveloperResponses
    [] agent = TEAM_LEAD -> TeamLeadResponses[current_iteration, max_iterations]

\* ------------------------------------------------------------------ engine
SessionIds == { "s1" }

\* The engine methods that suspend at "await next_agent.process(context)".
START == "start_prompt_generation_session"
PROCESS_USER_INPUT == "process_user_input"
CONTINUE_WITHOUT_INPUT == "continue_without_input"

Advance == { PROCESS_USER_INPUT, CONTINUE_WITHOUT_INPUT }

\* final_prompt = None
None == "<None>"

VARIABLES
  \* AgentOrchestrationEngine.active_sessions: session id -> the
  \* session_data dictionary registered for it (its place in heap)
  active_sessions,
  \* the session_data dictionaries that are still referenced, by
  \* active_sessions or by the local variable of a suspended call
  heap,
  \* AgentOrchestrationEngine.current_state
  current_state,
  \* the engine calls suspended at their await (a bag of calls)
  calls,
  \* agent_messages rows of one session, as sequence numbers in insert order
  agent_messages,
  \* DatabaseService.create_agent_message calls in progress (a bag)
  db_calls,
  \* the last return of TeamLeadAgent.process called on its own: << >> before
  \* any call, then one record of the context, the generated text and the
  \* response
  team_lead_return,
  \* the sessions table: session id -> the columns of its row that the
  \* request handlers read and write
  sessions,
  \* the tasks handed to BackgroundTasks.add_task that have not run yet
  background_tasks,
  \* an AgentContextManager: its lists, counters and cache
  context_manager,
  \* what build_agent_context returned in the step just taken, with the
  \* arguments of the call; << >> when the step was no build_agent_context
  build_return,
  \* one GLMApiClient.chat_completion call: the client's max_retries, the
  \* outcome of every request sent so far, the backoff sleeps taken and
  \* whether the call is running, has returned or has raised
  glm_call,
  \* a ConversationManager: its messages and threads (dictionaries, kept in
  \* insertion order), its counters and its content index
  conversation_manager,
  \* the method of the ConversationManager called in the step just taken,
  \* with its arguments and what it returned
  conversation_return,
  \* the last ProductManagerAgent._agent_specific_validation call: << >>
  \* before any call, then one record of the parsed response's content, the
  \* validation result and the content of the response it returned
  validation_return,
  \* the database a SessionRepository works on: the rows of the sessions
  \* table it reads and writes (status, waiting_for_user_since) and the rows
  \* of session_waiting_states
  repository,
  \* the SessionRepository method called in the step just taken, with its
  \* session id and what it returned
  repository_return,
  \* a RateLimiter: the clock, the admission times it keeps in
  \* self.requests, every admission made so far and the callers suspended
  \* in its sleep
  rate_limiter

vars ==
  << active_sessions, heap, current_state, calls, agent_messages, db_calls,
     team_lead_return, sessions, background_tasks, context_manager,
     build_return, glm_call, conversation_manager, conversation_return,
     validation_return, repository, repository_return, rate_limiter >>

engine_vars == << active_sessions, heap, current_state, calls >>

db_vars == << agent_messages, db_calls >>

api_vars == << sessions, background_tasks >>

context_vars == << context_manager, build_return >>

conversation_vars == << conversation_manager, conversation_return >>

repository_vars == << repository, repository_return >>

\* the components that stand alone: the context manager, the GLM client,
\* the conversation manager, the response validator, the session repository
\* and the rate limiter
component_vars ==
  << context_vars, glm_call, conversation_vars, validation_return,
     repository_vars, rate_limiter >>

\* what the engine's methods do not touch
other_vars == << db_vars, team_lead_return, api_vars, component_vars >>

\* the empty dictionary
EmptyDict == [x \in {} |-> x]

\* a dictionary d with key k set to v
Put(d, k, v) == [x \in DOMAIN d \cup {k} |-> IF x = k THEN v ELSE d[x]]

\* a dictionary d without key k
Del(d, k) == [x \in DOMAIN d \ {k} |-> d[x]]

\* the values of dictionary d
Values(d) == { d[k] : k \in DOMAIN d }

\* The place of a newly allocated dictionary.
NewRef(h) == CHOOSE i \in 1..(MaxInFlight + 1) :
               i \notin DOMAIN h /\ \A j \in 1..(i - 1) : j \in DOMAIN h

\* Python's garbage collection: a dictionary nobody references is gone.
Collect(h, registry, suspended) ==
  LET live == Values(registry) \cup { c.ref : c \in BagToSet(suspended) }
  IN  [i \in DOMAIN h \cap live |-> h[i]]

\* session_data as start_prompt_generation_session leaves it when it suspends
NewSessionData(session_id, max_iterations) ==
  [session_id |-> session_id,
   max_iterations |-> max_iterations,
   current_iteration |-> 0,
   state |-> REQUIREMENTS_ANALYSIS,
   agent_outputs |-> EmptyDict,
   conversation_history |-> << >>,
   final_prompt |-> None,
   status |-> "active",
   supplementary_inputs |-> << >>]

\* the entry the engine stores in session_data["agent_outputs"]
AgentOutput(response) ==
  [content |-> response.content, message_type |-> response.message_type,
   confidence |-> response.confidence]

\* AgentOrchestrationEngine._get_last_team_lead_feedback; EmptyContent
\* stands for both None and the "" _finalize_session reads in its place
get_last_team_lead_feedback(session_data) ==
  IF TEAM_LEAD \in DOMAIN session_data.agent_outputs
  THEN session_data.agent_outputs[TEAM_LEAD].content
  ELSE EmptyContent

\* An agent selection that sends a session in TECHNICAL_DESIGN to the Team
\* Lead, leaving the Technical Developer out.
determine_next_agent_skipping_developer(session_data) ==
  LET state == session_data.state
  IN  IF state = REQUIREMENTS_ANALYSIS THEN PRODUCT_MANAGER
      ELSE IF state \in { TECHNICAL_DESIGN, TEAM_LEAD_REVIEW } THEN TEAM_LEAD
      ELSE IF state = FEEDBACK_PROCESSING
           THEN IF get_last_team_lead_feedback(session_data).reqs
                THEN PRODUCT_MANAGER ELSE TECHNICAL_DEVELOPER
      ELSE "none"

\* AgentOrchestrationEngine._determine_next_agent; "none" is Python's None
determine_next_agent(session_data) ==
  LET state == session_data.state
  IN  IF state = REQUIREMENTS_ANALYSIS THEN PRODUCT_MANAGER
      ELSE IF state = TECHNICAL_DESIGN THEN TECHNICAL_DEVELOPER
      ELSE IF state = TEAM_LEAD_REVIEW THEN TEAM_LEAD
      ELSE IF state = FEEDBACK_PROCESSING
           THEN IF get_last_team_lead_feedback(session_data).reqs
                THEN PRODUCT_MANAGER ELSE TECHNICAL_DEVELOPER
      ELSE "none"

\* AgentOrchestrationEngine._determine_next_state
determine_next_state(session_data, agent_response) ==
  LET state == session_data.state
      current_iteration == session_data.current_iteration
  IN  IF agent_response.message_type = APPROVAL
      THEN IF state = TEAM_LEAD_REVIEW THEN COMPLETED ELSE TEAM_LEAD_REVIEW
      ELSE IF agent_response.message_type = REJECTION THEN FEEDBACK_PROCESSING
      ELSE IF agent_response.message_type = QUESTION THEN state
      ELSE IF state = REQUIREMENTS_ANALYSIS THEN TECHNICAL_DESIGN
      ELSE IF state = TECHNICAL_DESIGN THEN TEAM_LEAD_REVIEW
      ELSE IF state = FEEDBACK_PROCESSING
           THEN IF current_iteration >= session_data.max_iterations - 1
                THEN FINAL_APPROVAL ELSE TEAM_LEAD_REVIEW
      ELSE state

\* AgentOrchestrationEngine._get_next_agent_name
get_next_agent_name(state) ==
  CASE state = REQUIREMENTS_ANALYSIS -> PRODUCT_MANAGER
    [] state = TECHNICAL_DESIGN -> TECHNICAL_DEVELOPER
    [] state = TEAM_LEAD_REVIEW -> TEAM_LEAD
    [] state = FEEDBACK_PROCESSING -> "depends_on_feedback"
    [] state = FINAL_APPROVAL -> TEAM_LEAD
    [] OTHER -> "none"

\* A history that all registered sessions share: the message is appended to
\* each of them.
add_to_conversation_history_shared(h, registry, session_id, agent_type, response) ==
  IF session_id \notin DOMAIN registry THEN h
  ELSE [i \in DOMAIN h |->
          IF i \in Values(registry)
          THEN [h[i] EXCEPT !.conversation_history =
                  Append(@, [id |-> Len(@) + 1, agent_type |-> agent_type,
                             message_type |-> response.message_type,
                             metadata |-> response.metadata])]
          ELSE h[i]]

\* AgentOrchestrationEngine._add_to_conversation_history, on heap h: the
\* message goes to the dictionary registered for session_id, with
\* id = len(conversation_history) + 1
add_to_conversation_history(h, registry, session_id, agent_type, response) ==
  IF session_id \notin DOMAIN registry THEN h
  ELSE LET i == registry[session_id]
           message == [id |-> Len(h[i].conversation_history) + 1,
                       agent_type |-> agent_type,
                       message_type |-> response.message_type,
                       metadata |-> response.metadata]
       IN  [h EXCEPT ![i].conversation_history = Append(@, message)]

\* AgentOrchestrationEngine._finalize_session, on heap h (session_id is
\* registered)
finalize_session(h, registry, session_id) ==
  LET i == registry[session_id]
      team_lead_output == get_last_team_lead_feedback(h[i])
  IN  [h EXCEPT ![i].status = "completed",
                ![i].state = COMPLETED,
                ![i].final_prompt = extract_final_prompt(team_lead_output)]

\* Scope of the model: no advance call is made while the start of the
\* session is suspended.
Started(session_id) ==
  \A c \in BagToSet(calls) : ~(c.op = START /\ c.session_id = session_id)

\* Bound on the work in progress: a call may begin only while the recorded
\* turns and the suspended calls together stay below MaxTurns.
RoomForTurn(session_id) ==
  /\ BagCardinality(calls) < MaxInFlight
  /\ IF session_id \in DOMAIN active_sessions
     THEN Len(heap[active_sessions[session_id]].conversation_history)
            + BagCardinality(calls) < MaxTurns
     ELSE TRUE

\* start_prompt_generation_session up to "await self.product_manager.process":
\* a new session_data replaces whatever was registered under session_id.
\* Scope of the model: a start happens while no engine call is suspended.
start_session(session_id, max_iterations) ==
  /\ calls = EmptyBag
  /\ LET ref == NewRef(heap)
         registry == Put(active_sessions, session_id, ref)
         suspended == calls (+) SetToBag({
                        [op |-> START, session_id |-> session_id, ref |-> ref,
                         agent |-> PRODUCT_MANAGER, current_iteration |-> 0,
                         max_iterations |-> max_iterations] })
     IN /\ active_sessions' = registry
        /\ calls' = suspended
        /\ heap' = Collect(Put(heap, ref, NewSessionData(session_id, max_iterations)),
                           registry, suspended)
  /\ current_state' = REQUIREMENTS_ANALYSIS

\* start_prompt_generation_session called on the engine directly
start_begin(session_id, max_iterations) ==
  /\ start_session(session_id, max_iterations)
  /\ UNCHANGED other_vars

\* start_prompt_generation_session from the return of the Product Manager
start_finish(call) ==
  /\ call \in BagToSet(calls)
  /\ call.op = START
  /\ \E pm_response \in ProductManagerResponses :
       LET ref == call.ref
           h1 == [heap EXCEPT ![ref].agent_outputs =
                    Put(@, PRODUCT_MANAGER, AgentOutput(pm_response))]
           h2 == add_to_conversation_history(h1, active_sessions, call.session_id,
                                             PRODUCT_MANAGER, pm_response)
           next_state == IF pm_response.requires_user_input
                         THEN REQUIREMENTS_ANALYSIS ELSE TECHNICAL_DESIGN
           h3 == [h2 EXCEPT ![ref].status =
                               IF pm_response.requires_user_input
                               THEN "waiting_for_user_input" ELSE @,
                            ![ref].state = next_state]
       IN /\ calls' = calls (-) SetToBag({call})
          /\ heap' = Collect(h3, active_sessions, calls')
  /\ UNCHANGED << active_sessions, current_state, other_vars >>

\* process_user_input / continue_without_input on an unknown session id:
\* "Session not found" is raised; the except branch of process_user_input
\* writes status and error into a fresh dictionary that nobody holds.
advance_not_found(op, session_id) ==
  /\ op \in Advance
  /\ session_id \notin DOMAIN active_sessions
  /\ UNCHANGED vars

\* session_data after the first lines of an advance call: process_user_input
\* appends the input (user_input, or the one-element supplementary_inputs
\* the API passes); continue_without_input changes nothing.
WithUserInput(op, session_data) ==
  IF op = PROCESS_USER_INPUT
  THEN [session_data EXCEPT !.supplementary_inputs = Append(@, "input")]
  ELSE session_data

\* process_user_input / continue_without_input when _determine_next_agent
\* returns None: the session is finalized without any agent being called.
advance_finalize(op, session_id) ==
  /\ session_id \in DOMAIN active_sessions
  /\ Started(session_id)
  /\ LET ref == active_sessions[session_id]
         session_data == WithUserInput(op, heap[ref])
         h1 == [heap EXCEPT ![ref] = session_data]
     IN /\ Len(session_data.supplementary_inputs) <= MaxInputs
        /\ determine_next_agent(session_data) = "none"
        /\ heap' = finalize_session(h1, active_sessions, session_id)
  /\ UNCHANGED << active_sessions, current_state, calls, other_vars >>

\* process_user_input / continue_without_input up to
\* "await next_agent.process(context)"
advance_call(op, session_id) ==
  /\ session_id \in DOMAIN active_sessions
  /\ Started(session_id)
  /\ LET ref == active_sessions[session_id]
         session_data == WithUserInput(op, heap[ref])
         next_agent == determine_next_agent(session_data)
     IN /\ Len(session_data.supplementary_inputs) <= MaxInputs
        /\ next_agent # "none"
        /\ heap' = [heap EXCEPT ![ref] = session_data]
        /\ calls' = calls (+) SetToBag({
                        [op |-> op, session_id |-> session_id, ref |-> ref,
                         agent |-> next_agent,
                         current_iteration |-> session_data.current_iteration,
                         max_iterations |-> session_data.max_iterations] })
  /\ UNCHANGED << active_sessions, current_state, other_vars >>

\* the same, within the bound on the work in progress
advance_begin(op, session_id) ==
  /\ RoomForTurn(session_id)
  /\ advance_call(op, session_id)

\* The session_data a call holds, after the agent returned agent_response:
\* output stored, turn recorded, next state stored, iteration counted
\* (process_user_input only), status set, a completed session finalized.
\* self.active_sessions[session_id] in _finalize_session raises KeyError
\* when the session was cleaned up meanwhile; the except branch then
\* changes no dictionary that is still referenced.
AfterAgent(h, registry, call, agent_response) ==
  LET ref == call.ref
      h1 == [h EXCEPT ![ref].agent_outputs =
               Put(@, call.agent, AgentOutput(agent_response))]
      h2 == add_to_conversation_history(h1, registry, call.session_id,
                                        call.agent, agent_response)
      next_state == determine_next_state(h2[ref], agent_response)
      h3 == [h2 EXCEPT ![ref].state = next_state]
      h4 == IF call.op = PROCESS_USER_INPUT
               /\ agent_response.message_type \in { APPROVAL }
            THEN [h3 EXCEPT ![ref].current_iteration = @ + 1]
            ELSE h3
      h5 == [h4 EXCEPT ![ref].status =
               IF agent_response.requires_user_input
               THEN "waiting_for_user_input"
               ELSE IF call.op = CONTINUE_WITHOUT_INPUT /\ next_state = COMPLETED
               THEN "completed"
               ELSE "processing"]
  IN  IF next_state = COMPLETED /\ call.session_id \in DOMAIN registry
      THEN finalize_session(h5, registry, call.session_id)
      ELSE h5

\* process_user_input / continue_without_input from the return of the agent
\* with agent_response
advance_return(call, agent_response) ==
  /\ call \in BagToSet(calls)
  /\ call.op \in Advance
  /\ calls' = calls (-) SetToBag({call})
  /\ heap' = Collect(AfterAgent(heap, active_sessions, call, agent_response),
                     active_sessions, calls')
  /\ UNCHANGED << active_sessions, current_state, other_vars >>

\* the same, for every response the agent may give
advance_finish(call) ==
  /\ call \in BagToSet(calls)
  /\ \E agent_response \in
         AgentResponses(call.agent, call.current_iteration, call.max_iterations) :
       advance_return(call, agent_response)

\* A status query that writes: it marks the session it reads as active.
get_session_status_marking(session_id) ==
  /\ session_id \in DOMAIN active_sessions
  /\ heap' = [heap EXCEPT ![active_sessions[session_id]].status = "active"]
  /\ UNCHANGED << active_sessions, current_state, calls, other_vars >>

\* AgentOrchestrationEngine.get_session_status: reads the session, or
\* raises "Session not found"
get_session_status(session_id) ==
  /\ session_id \in SessionIds
  /\ UNCHANGED vars

\* AgentOrchestrationEngine.cleanup_session
cleanup_session(session_id) ==
  /\ session_id \in DOMAIN active_sessions
  /\ heap[active_sessions[session_id]].status \in { "completed", "failed" }
  /\ active_sessions' = Del(active_sessions, session_id)
  /\ heap' = Collect(heap, active_sessions', calls)
  /\ UNCHANGED << current_state, calls, other_vars >>

\* The calls that may be suspended, by the bounds of the model.
Calls ==
  [op : { START } \cup Advance, session_id : SessionIds,
   ref : 1..(MaxInFlight + 1), agent : AgentType,
   current_iteration : 0..MaxTurns, max_iterations : 1..MaxMaxIterations]

\* ------------------------------------------------------ AgentContextManager
\* backend/src/agents/context_manager.py.  Timestamps are not modelled; of
\* the clock only whether the cache is younger than _cache_ttl (cache_fresh).
\* A context entry is its key, value and scope; the agent_type filter of the
\* entry methods is never passed.  A turn is its agent_type and message_type.
SESSION == "session"
ITERATION == "iteration"

\* scope=None
NoScope == "<no scope>"

\* self.max_iterations = 5
DefaultMaxIterations == 5

\* self.max_interventions = 3
DefaultMaxInterventions == 3

\* AgentContextManager.__init__
NewContextManager ==
  [context_entries |-> << >>,
   conversation_history |-> << >>,
   current_iteration |-> 0,
   max_iterations |-> DefaultMaxIterations,
   user_intervention_count |-> 0,
   max_interventions |-> DefaultMaxInterventions,
   cached_context |-> << >>,
   cache_fresh |-> FALSE]

ContextEntry(key, value, scope) == [key |-> key, value |-> value, scope |-> scope]

ConversationTurn(agent_type, message_type) ==
  [agent_type |-> agent_type, message_type |-> message_type]

\* AgentContextManager._invalidate_cache
invalidate_cache(cm) ==
  [cm EXCEPT !.cached_context = << >>, !.cache_fresh = FALSE]

\* AgentContextManager._is_cache_valid
is_cache_valid(cm) == cm.cached_context # << >> /\ cm.cache_fresh

\* the test the entry methods apply to an entry
EntryMatches(entry, key, scope) ==
  entry.key = key /\ (scope = NoScope \/ entry.scope = scope)

\* AgentContextManager.add_context_entry
add_entry(cm, key, value, scope) ==
  invalidate_cache([cm EXCEPT !.context_entries =
                      Append(@, ContextEntry(key, value, scope))])

\* AgentContextManager.update_context_entry: the most recent matching entry
update_entry(cm, key, value, scope) ==
  LET found == { i \in 1..Len(cm.context_entries) :
                   EntryMatches(cm.context_entries[i], key, scope) }
  IN  IF found = {} THEN cm
      ELSE LET last == CHOOSE i \in found : \A j \in found : j <= i
           IN  invalidate_cache([cm EXCEPT !.context_entries[last].value = value])

\* AgentContextManager.remove_context_entry
remove_entry(cm, key, scope) ==
  LET Keep(entry) == ~EntryMatches(entry, key, scope)
      kept == SelectSeq(cm.context_entries, Keep)
      removed == [cm EXCEPT !.context_entries = kept]
  IN  IF Len(kept) < Len(cm.context_entries) THEN invalidate_cache(removed)
      ELSE removed

\* add_conversation_turn without the call of _invalidate_cache
add_turn_keeping_cache(cm, agent_type, message_type) ==
  [cm EXCEPT !.conversation_history =
     Append(@, ConversationTurn(agent_type, message_type))]

\* AgentContextManager.add_conversation_turn
add_turn(cm, agent_type, message_type) ==
  invalidate_cache([cm EXCEPT !.conversation_history =
                      Append(@, ConversationTurn(agent_type, message_type))])

\* The AgentContext build_agent_context constructs from the manager and the
\* arguments of the call.
NewAgentContext(cm, args) ==
  LET history == cm.conversation_history
      Of(agent_type) == LET Same(turn) == turn.agent_type = agent_type
                        IN  SelectSeq(history, Same)
      session_entries == { i \in 1..Len(cm.context_entries) :
                             cm.context_entries[i].scope = SESSION }
      Latest(key) == CHOOSE i \in session_entries :
                       /\ cm.context_entries[i].key = key
                       /\ \A j \in session_entries :
                            cm.context_entries[j].key = key => j <= i
  IN  [user_requirements |-> args.user_requirements,
       supplementary_inputs |-> args.supplementary_inputs,
       clarifying_questions |-> args.clarifying_questions,
       conversation_history |-> history,
       current_iteration |-> cm.current_iteration,
       max_iterations |-> cm.max_iterations,
       user_intervention_count |-> cm.user_intervention_count,
       max_interventions |-> cm.max_interventions,
       agent_outputs |->
         [agent_type \in { history[i].agent_type : i \in 1..Len(history) } |->
            Of(agent_type)],
       metadata |->
         [key \in { cm.context_entries[i].key : i \in session_entries } |->
            cm.context_entries[Latest(key)].value]]

\* AgentContextManager.increment_iteration
increment_iteration_of(cm) ==
  IF cm.current_iteration < cm.max_iterations
  THEN invalidate_cache(
         add_entry([cm EXCEPT !.current_iteration = @ + 1],
                   "last_iteration_increment",
                   [new_iteration |-> cm.current_iteration + 1], ITERATION))
  ELSE cm

\* AgentContextManager.increment_user_intervention
increment_user_intervention_of(cm) ==
  IF cm.user_intervention_count < cm.max_interventions
  THEN invalidate_cache(
         add_entry([cm EXCEPT !.user_intervention_count = @ + 1],
                   "last_user_intervention",
                   [intervention_count |-> cm.user_intervention_count + 1],
                   SESSION))
  ELSE cm

\* AgentContextManager.reset_iteration
reset_iteration_of(cm) ==
  invalidate_cache(
    add_entry([cm EXCEPT !.current_iteration = 0],
              "iteration_reset", [reset |-> TRUE], SESSION))

\* AgentContextManager.import_context
import_context_into(cm, exported_context) ==
  invalidate_cache(
    [cm EXCEPT !.current_iteration = exported_context.current_iteration,
               !.max_iterations = exported_context.max_iterations,
               !.user_intervention_count = exported_context.user_intervention_count,
               !.max_interventions = exported_context.max_interventions,
               !.context_entries = exported_context.context_entries,
               !.conversation_history = exported_context.conversation_history])

\* ---------------------------------------------------------------------
\* agents/conversation_manager.py: ConversationManager
\* ---------------------------------------------------------------------
\* A content is the sequence of its words, written with single spaces
\* between them; no word of the vocabulary is part of another word.  Ids
\* (uuid4) are numbers never used before: a manager created with first_id
\* hands out first_id + 1, first_id + 2, ...; timestamps (utcnow) are the
\* readings of a clock that advances with every message.  Roles, agent
\* types, iteration numbers, metadata and the edit fields of a message are
\* not modelled.

\* ConversationManager.__init__
NewConversationManager(first_id) ==
  [messages |-> << >>, threads |-> << >>, current_thread_id |-> << >>,
   current_turn |-> 0, message_count |-> 0, content_index |-> << >>,
   last_id |-> first_id, clock |-> first_id]

\* key in a dictionary kept as the sequence of its items
Position(items, key_field, key) ==
  IF \E i \in 1..Len(items) : items[i][key_field] = key
  THEN CHOOSE i \in 1..Len(items) : items[i][key_field] = key
  ELSE 0

\* message_id in self.messages
HasMessage(cm, message_id) == Position(cm.messages, "id", message_id) > 0

\* self.messages[message_id]
MessageOf(cm, message_id) == cm.messages[Position(cm.messages, "id", message_id)]

\* d[key] = item on a dictionary: a new key goes to the end, a known key
\* keeps its place
SetItem(items, key_field, item) ==
  LET i == Position(items, key_field, item[key_field])
  IN  IF i = 0 THEN Append(items, item) ELSE [items EXCEPT ![i] = item]

\* del d[key]
DelItem(items, key_field, key) ==
  LET Other(item) == item[key_field] # key
  IN  SelectSeq(items, Other)

\* [x for x in ids if x != message_id]
Without(ids, message_id) ==
  LET Other(x) == x # message_id
  IN  SelectSeq(ids, Other)

\* ConversationManager._create_thread
create_thread(cm) ==
  LET thread_id == cm.last_id + 1
  IN  [cm EXCEPT !.threads = Append(@, [thread_id |-> thread_id, message_ids |-> << >>]),
                 !.current_thread_id = << thread_id >>,
                 !.last_id = thread_id]

\* ConversationManager.add_message with thread_id = None; parent_id is
\* << >> (None) or << id >>
add_message_to(cm, content, message_type, parent_id) ==
  LET message_id == cm.last_id + 1
      named == [cm EXCEPT !.last_id = message_id, !.clock = @ + 1]
      threaded == IF named.current_thread_id = << >>
                  THEN create_thread(named) ELSE named
      thread_id == threaded.current_thread_id[1]
      message == [id |-> message_id, content |-> content,
                  message_type |-> message_type, parent_id |-> parent_id,
                  children_ids |-> << >>, turn_number |-> cm.current_turn,
                  timestamp |-> named.clock]
      AsParent(m) == IF parent_id # << >> /\ m.id = parent_id[1]
                     THEN [m EXCEPT !.children_ids = Append(@, message_id)]
                     ELSE m
      InThread(thread) == IF thread.thread_id = thread_id
                          THEN [thread EXCEPT !.message_ids = Append(@, message_id)]
                          ELSE thread
      stored == Append(threaded.messages, message)
  IN  [threaded EXCEPT
         !.messages = [i \in 1..Len(stored) |-> AsParent(stored[i])],
         !.message_count = @ + 1,
         !.threads = [i \in 1..Len(@) |-> InThread(@[i])],
         !.content_index = SetItem(@, "id", [id |-> message_id, words |-> content])]

RECURSIVE delete_message_in(_, _, _)
RECURSIVE delete_children(_, _)

\* for child_id in children_ids: self.delete_message(child_id, cascade=True)
delete_children(cm, children_ids) ==
  IF children_ids = << >> THEN cm
  ELSE delete_children(delete_message_in(cm, Head(children_ids), TRUE),
                       Tail(children_ids))

\* A deletion that never refuses: a message with children goes with them.
delete_message_always_cascading(cm, message_id, cascade) ==
  delete_message_in(cm, message_id, TRUE)

\* What ConversationManager.delete_message returns.
delete_message_returns(cm, message_id, cascade) ==
  /\ HasMessage(cm, message_id)
  /\ MessageOf(cm, message_id).children_ids = << >> \/ cascade

\* ConversationManager.delete_message: the manager it leaves
delete_message_in(cm, message_id, cascade) ==
  IF ~delete_message_returns(cm, message_id, cascade) THEN cm
  ELSE LET message == MessageOf(cm, message_id)
           FromParent(m) == IF message.parent_id # << >> /\ m.id = message.parent_id[1]
                            THEN [m EXCEPT !.children_ids = Without(@, message_id)]
                            ELSE m
           FromThread(thread) == [thread EXCEPT !.message_ids = Without(@, message_id)]
           unlinked == [cm EXCEPT
                          !.messages = [i \in 1..Len(@) |-> FromParent(@[i])],
                          !.threads = [i \in 1..Len(@) |-> FromThread(@[i])]]
           childless == IF cascade
                        THEN delete_children(unlinked, message.children_ids)
                        ELSE unlinked
       IN  [childless EXCEPT !.messages = DelItem(@, "id", message_id),
                             !.content_index = DelItem(@, "id", message_id)]

\* ConversationManager.delete_message
delete_message_of(cm, message_id, cascade) ==
  delete_message_in(cm, message_id, cascade)

\* ConversationManager.start_new_turn
start_new_turn_of(cm) == [cm EXCEPT !.current_turn = @ + 1]

\* word in content_lower: a word is a substring of a content exactly when
\* it is one of its words
ContainsWord(content, word) == \E i \in 1..Len(content) : content[i] = word

\* query.lower() in content_lower: the words of the query stand next to
\* each other in the content
ContainsPhrase(content, query) ==
  \E i \in 0..(Len(content) - Len(query)) :
    SubSeq(content, i + 1, i + Len(query)) = query

RECURSIVE relevance(_, _, _)

\* The scoring loop of search_messages over query_words[1..n]: one point
\* for a word found, and two more for that word when the whole query is
\* found as well.
relevance(content, query, n) ==
  IF n = 0 THEN 0
  ELSE relevance(content, query, n - 1)
         + (IF ContainsWord(content, query[n])
            THEN 1 + (IF ContainsPhrase(content, query) THEN 2 ELSE 0)
            ELSE 0)

\* x comes before y under sort(key=(score, timestamp), reverse=True)
Before(x, y) ==
  \/ x.score > y.score
  \/ x.score = y.score /\ x.timestamp > y.timestamp

RECURSIVE sort_results(_)

\* list.sort(..., reverse=True): stable, equal keys keep their order
sort_results(results) ==
  IF results = << >> THEN << >>
  ELSE LET n == Len(results)
           sorted == sort_results(SubSeq(results, 1, n - 1))
           x == results[n]
           k == Cardinality({ i \in 1..Len(sorted) : ~Before(x, sorted[i]) })
       IN  SubSeq(sorted, 1, k) \o << x >> \o SubSeq(sorted, k + 1, Len(sorted))

\* limit: int = 20
default_limit == 20

\* ConversationManager.search_messages without filters: the (message,
\* score) pairs it returns
search_messages_in(cm, query, limit) ==
  LET Result(m) == [id |-> m.id, score |-> relevance(m.content, query, Len(query)),
                    timestamp |-> m.timestamp]
      Found(r) == r.score > 0
      results == SelectSeq([i \in 1..Len(cm.messages) |-> Result(cm.messages[i])], Found)
      sorted == sort_results(results)
  IN  SubSeq(sorted, 1, IF Len(sorted) < limit THEN Len(sorted) ELSE limit)

\* ConversationManager.export_conversation: enum members are written as
\* their values and timestamps as ISO strings
export_conversation(cm) ==
  LET MessageData(m) == [id |-> m.id, content |-> m.content,
                         message_type |-> [value |-> m.message_type],
                         timestamp |-> [isoformat |-> m.timestamp],
                         parent_id |-> m.parent_id,
                         children_ids |-> m.children_ids,
                         turn_number |-> m.turn_number]
  IN  [current_turn |-> cm.current_turn,
       current_thread_id |-> cm.current_thread_id,
       messages |-> [i \in 1..Len(cm.messages) |-> MessageData(cm.messages[i])],
       threads |-> cm.threads]

RECURSIVE set_items(_, _, _)

\* for item in new_items: d[item[key_field]] = item
set_items(items, key_field, new_items) ==
  IF new_items = << >> THEN items
  ELSE set_items(SetItem(items, key_field, Head(new_items)), key_field,
                 Tail(new_items))

\* ConversationManager._rebuild_counts_and_indexes
rebuild_counts_and_indexes(cm) ==
  [cm EXCEPT !.message_count = Len(cm.messages),
             !.content_index = [i \in 1..Len(cm.messages) |->
                                  [id |-> cm.messages[i].id,
                                   words |-> cm.messages[i].content]]]

\* ConversationManager.import_conversation
import_conversation_into(cm, conversation_data) ==
  LET Message(msg_data) == [id |-> msg_data.id, content |-> msg_data.content,
                            message_type |-> msg_data.message_type.value,
                            parent_id |-> msg_data.parent_id,
                            children_ids |-> msg_data.children_ids,
                            turn_number |-> msg_data.turn_number,
                            timestamp |-> msg_data.timestamp.isoformat]
      data == conversation_data.messages
  IN  rebuild_counts_and_indexes(
        [cm EXCEPT !.current_turn = conversation_data.current_turn,
                   !.current_thread_id = conversation_data.current_thread_id,
                   !.messages = set_items(@, "id",
                                          [i \in 1..Len(data) |-> Message(data[i])]),
                   !.threads = set_items(@, "thread_id", conversation_data.threads)])

\* no method of the ConversationManager was called in the step
NoReturn == [method |-> "none"]

\* ---------------------------------------------------------------------
\* agents/response_validator.py and ProductManagerAgent's validation
\* ---------------------------------------------------------------------
\* A generated content is modelled by what the validator reads from it:
\*   length      "short" (fewer than 10 characters without the outer
\*               whitespace), "long" (more than 200) or "medium"
\*   padded      the outer whitespace is more than half of the content
\*   structure   "headers" (a markdown header line), "lists" (a list line
\*               and no '#'), "hash" (a '#' that starts no header, and no
\*               list) or "none"
\*   lines       "many" (more than 3 lines) or "few"
\*   question    the content has a '?'
\*   corrected   the corrections made to it: "normalized" whitespace, a
\*               "header" put before the first line
\* Issues of severity WARNING and INFO other than EXCESSIVE_WHITESPACE and
\* MISSING_STRUCTURE change neither validity nor corrections and are left
\* out.

\* GLMResponseParser._extract_content: message.get("content", "").strip()
extract_content(content) == [content EXCEPT !.padded = FALSE]

\* ResponseValidator._validate_basic_content
validate_basic_content(content) ==
  (IF content.length = "short" THEN { "CONTENT_TOO_SHORT" } ELSE {})
    \cup (IF content.padded THEN { "EXCESSIVE_WHITESPACE" } ELSE {})

\* ResponseValidator._validate_product_manager_response
validate_product_manager_response(content, message_type) ==
  IF message_type = CLARIFICATION /\ ~content.question
  THEN { "CLARIFICATION_NOT_A_QUESTION" } ELSE {}

\* ResponseValidator._validate_format_and_structure
validate_format_and_structure(content) ==
  IF content.length = "long" /\ content.structure \notin { "headers", "lists" }
  THEN { "MISSING_STRUCTURE" } ELSE {}

\* the codes of the issues of severity CRITICAL or ERROR
ErrorCodes == { "EMPTY_CONTENT", "CONTENT_TOO_SHORT", "CLARIFICATION_NOT_A_QUESTION",
                "MISSING_APPROVAL_INDICATORS" }

\* ResponseValidator._apply_corrections: << >> is None
apply_corrections(content, issues) ==
  LET spaced == IF "EXCESSIVE_WHITESPACE" \in issues
                THEN [content EXCEPT !.padded = FALSE, !.lines = "few",
                                     !.corrected = @ \cup { "normalized" }]
                ELSE content
      corrected == IF /\ "MISSING_STRUCTURE" \in issues
                      /\ spaced.length = "long"
                      /\ spaced.structure = "none"
                      /\ spaced.lines = "many"
                   THEN [spaced EXCEPT !.structure = "headers",
                                       !.corrected = @ \cup { "header" }]
                   ELSE spaced
  IN  IF corrected # content THEN << corrected >> ELSE << >>

\* ResponseValidator.validate_response for a Product Manager response
validate_response(content, message_type) ==
  LET issues == validate_basic_content(content)
                  \cup validate_product_manager_response(content, message_type)
                  \cup validate_format_and_structure(content)
  IN  [is_valid |-> issues \cap ErrorCodes = {},
       issues |-> issues,
       corrected_content |-> apply_corrections(content, issues)]

\* ProductManagerAgent._agent_specific_validation: the content of the
\* response it returns
agent_specific_validation(content, message_type) ==
  LET validation_result == validate_response(content, message_type)
  IN  IF ~validation_result.is_valid /\ validation_result.corrected_content # << >>
      THEN validation_result.corrected_content[1]
      ELSE content

\* ---------------------------------------------------------------------
\* services/glm_api.py: GLMApiClient.chat_completion
\* ---------------------------------------------------------------------

\* What one request can come to.  "completion": a 2xx response that parses
\* as a GLMChatResponse.  "malformed": a 2xx response that does not (the
\* body is no JSON, or pydantic rejects it).  "status": raise_for_status
\* raised httpx.HTTPStatusError with status_code; json_body tells whether
\* the error body is empty or JSON, which e.response.json() can read.
\* "timeout": httpx.TimeoutException.  "network": any other exception of
\* the transport.
Completion == [kind |-> "completion", status_code |-> 200, json_body |-> TRUE]

Malformed == [kind |-> "malformed", status_code |-> 200, json_body |-> FALSE]

HTTPStatusError(status_code, json_body) ==
  [kind |-> "status", status_code |-> status_code, json_body |-> json_body]

TimeoutException == [kind |-> "timeout", status_code |-> 0, json_body |-> TRUE]

NetworkError == [kind |-> "network", status_code |-> 0, json_body |-> TRUE]

\* GLMApiClient._should_retry
should_retry(status_code) == status_code \in { 429, 502, 503, 504 }

base_delay == 1

max_delay == 60

\* GLMApiClient._get_backoff_delay
get_backoff_delay(attempt) ==
  LET delay == base_delay * (2 ^ attempt)
  IN  IF delay < max_delay THEN delay ELSE max_delay

\* no chat_completion call has been made
NoCall ==
  [state |-> "none", max_retries |-> 0, attempt |-> 0, outcomes |-> << >>,
   sleeps |-> << >>, raised |-> "none"]

\* the call enters its retry loop
NewCall(max_retries) ==
  [NoCall EXCEPT !.state = "running", !.max_retries = max_retries]

\* the call sleeps for the backoff delay and goes to the next attempt
Continue(call) ==
  [call EXCEPT !.sleeps = Append(@, get_backoff_delay(call.attempt)),
               !.attempt = @ + 1]

Raise(call, error) == [call EXCEPT !.state = "raised", !.raised = error]

\* One more attempt than the client's max_retries allows.
chat_completion_attempt_retrying_once_more(call, outcome) ==
  LET sent == [call EXCEPT !.outcomes = Append(@, outcome)]
  IN  IF outcome.kind = "completion"
      THEN [sent EXCEPT !.state = "returned"]
      ELSE IF call.attempt < call.max_retries + 1
           THEN Continue(sent)
           ELSE Raise(sent, "GLMAPIError")

\* One pass of the retry loop of chat_completion: the request is sent and
\* comes to outcome; the call returns, sleeps and goes on, or raises.
chat_completion_attempt(call, outcome) ==
  LET sent == [call EXCEPT !.outcomes = Append(@, outcome)]
  IN  CASE outcome.kind = "completion" ->
             [sent EXCEPT !.state = "returned"]
        [] outcome.kind = "status" ->
             IF ~outcome.json_body
             THEN Raise(sent, "JSONDecodeError")
             ELSE IF should_retry(outcome.status_code)
                     /\ call.attempt < call.max_retries
                  THEN Continue(sent)
                  ELSE Raise(sent, "GLMAPIError")
        [] outcome.kind = "timeout" ->
             IF call.attempt < call.max_retries
             THEN Continue(sent)
             ELSE Raise(sent, "TimeoutError")
        [] OTHER ->
             IF call.attempt < call.max_retries
             THEN Continue(sent)
             ELSE Raise(sent, "GLMAPIError")

\* AgentOrchestrationEngine.__init__, empty agent_messages and sessions
\* tables, no Team Lead call made yet, no background task scheduled, and
\* AgentContextManager.__init__
\* ---------------------------------------------------- SessionRepository
\* An empty database: no row in sessions, none in session_waiting_states.
NewDatabase == [sessions |-> EmptyDict, waiting_states |-> << >>]

\* A row of the sessions table with the column defaults of the model;
\* waiting is "waiting_for_user_since is not None".
SessionRow == [status |-> "active", waiting |-> FALSE]

\* SessionRepository.update_session_status, on database db (the row exists)
update_session_status_in(db, session_id, status) ==
  [db EXCEPT !.sessions[session_id].status = status]

\* SessionRepository.set_waiting_state, on database db (the row exists)
set_waiting_state_in(db, session_id) ==
  [db EXCEPT !.sessions[session_id] = [status |-> "waiting_for_user_input",
                                       waiting |-> TRUE],
             !.waiting_states = Append(@, [session_id |-> session_id,
                                           status |-> "active"])]

\* SessionRepository.clear_waiting_state, on database db (the row exists):
\* the session is set to processing and its active waiting states end.
clear_waiting_state_in(db, session_id) ==
  [db EXCEPT !.sessions[session_id] = [status |-> "processing", waiting |-> FALSE],
             !.waiting_states =
                [i \in DOMAIN @ |->
                   IF @[i].session_id = session_id /\ @[i].status = "active"
                   THEN [@[i] EXCEPT !.status = "resolved"]
                   ELSE @[i]]]

\* SessionRepository.cancel_session, on database db (the row exists): the
\* status is assigned, clear_waiting_state runs on the same AsyncSession
\* (its select returns the same row object) and commits.
cancel_session_in(db, session_id) ==
  clear_waiting_state_in(
    [db EXCEPT !.sessions[session_id].status = "cancelled"], session_id)

\* ------------------------------------------------------------ RateLimiter
\* The window of the limiter in seconds ("now - req_time < 60").
window == 60

\* A limiter not constructed yet.
NewRateLimiter ==
  [requests_per_minute |-> 0, now |-> 0, requests |-> << >>,
   admitted |-> << >>, sleeping |-> << >>]

\* RateLimiter.__init__; now is the clock time.time() reads, admitted the
\* times at which wait_if_needed returned (history, not a field).
RateLimiter(requests_per_minute) ==
  [NewRateLimiter EXCEPT !.requests_per_minute = requests_per_minute]

\* "[req_time for req_time in self.requests if now - req_time < 60]"
RECURSIVE recent(_, _)
recent(requests, now) ==
  IF requests = << >> THEN << >>
  ELSE IF now - Head(requests) < window
       THEN << Head(requests) >> \o recent(Tail(requests), now)
       ELSE recent(Tail(requests), now)

\* min(self.requests)
oldest_request(requests) ==
  CHOOSE t \in { requests[i] : i \in DOMAIN requests } :
    \A i \in DOMAIN requests : t <= requests[i]

\* RateLimiter.wait_if_needed from "async with self.lock" to its return or
\* to "await asyncio.sleep(wait_time)": the caller read the clock as
\* rl.now.  A caller that sleeps keeps the lock and the time it read.
wait_if_needed_enter(rl) ==
  LET now == rl.now
      requests == recent(rl.requests, now)
      wait_time == window - (now - oldest_request(requests))
  IN  IF Len(requests) >= rl.requests_per_minute /\ wait_time > 0
      THEN [rl EXCEPT !.requests = requests,
                      !.sleeping = << [now |-> now, wake |-> now + wait_time] >>]
      ELSE [rl EXCEPT !.requests = Append(requests, now),
                      !.admitted = Append(@, now)]

\* RateLimiter.wait_if_needed from the end of the sleep to its return:
\* "self.requests.append(now)" with the time read before the sleep.
wait_if_needed_resume(rl) ==
  [rl EXCEPT !.requests = Append(@, rl.sleeping[1].now),
             !.admitted = Append(@, rl.now),
             !.sleeping = << >>]

Init ==
  /\ active_sessions = EmptyDict
  /\ heap = EmptyDict
  /\ current_state = INITIALIZING
  /\ calls = EmptyBag
  /\ agent_messages = << >>
  /\ db_calls = EmptyBag
  /\ team_lead_return = << >>
  /\ sessions = EmptyDict
  /\ background_tasks = EmptyBag
  /\ context_manager = NewContextManager
  /\ build_return = << >>
  /\ glm_call = NoCall
  /\ conversation_manager = NewConversationManager(0)
  /\ conversation_return = NoReturn
  /\ validation_return = << >>
  /\ repository = NewDatabase
  /\ repository_return = NoReturn
  /\ rate_limiter = NewRateLimiter

Next ==
  \/ \E session_id \in SessionIds, max_iterations \in 1..MaxMaxIterations :
       start_begin(session_id, max_iterations)
  \/ \E call \in Calls : start_finish(call)
  \/ \E op \in Advance, session_id \in SessionIds : advance_not_found(op, session_id)
  \/ \E op \in Advance, session_id \in SessionIds : advance_finalize(op, session_id)
  \/ \E op \in Advance, session_id \in SessionIds : advance_begin(op, session_id)
  \/ \E call \in Calls : advance_finish(call)
  \/ \E session_id \in SessionIds : get_session_status(session_id)
  \/ \E session_id \in SessionIds : cleanup_session(session_id)

Spec == Init /\ [][Next]_vars


\* The engine when its callers serialize the calls on it: a call begins
\* only when none is suspended.
serial_advance_finalize(op, session_id) ==
  calls = EmptyBag /\ advance_finalize(op, session_id)

serial_advance_begin(op, session_id) ==
  calls = EmptyBag /\ advance_begin(op, session_id)

NextSerial ==
  \/ \E session_id \in SessionIds, max_iterations \in 1..MaxMaxIterations :
       start_begin(session_id, max_iterations)
  \/ \E call \in Calls : start_finish(call)
  \/ \E op \in Advance, session_id \in SessionIds : advance_not_found(op, session_id)
  \/ \E op \in Advance, session_id \in SessionIds :
       serial_advance_finalize(op, session_id)
  \/ \E op \in Advance, session_id \in SessionIds :
       serial_advance_begin(op, session_id)
  \/ \E call \in Calls : advance_finish(call)
  \/ \E session_id \in SessionIds : get_session_status(session_id)
  \/ \E session_id \in SessionIds : cleanup_session(session_id)

SpecSerial == Init /\ [][NextSerial]_vars

\* The engine under serialized calls when a call may raise.
\* process_user_input resumes from the agent's return, stores the output and
\* an exception is raised before the next state is stored (as the module
\* stands, the NameError of "Message(" in _add_to_conversation_history);
\* the except branch marks the registered session as failed and re-raises.
advance_raises(call) ==
  /\ call \in BagToSet(calls)
  /\ call.op = PROCESS_USER_INPUT
  /\ \E agent_response \in
         AgentResponses(call.agent, call.current_iteration, call.max_iterations) :
       LET h1 == [heap EXCEPT ![call.ref].agent_outputs =
                    Put(@, call.agent, AgentOutput(agent_response))]
           h2 == IF call.session_id \in DOMAIN active_sessions
                 THEN [h1 EXCEPT ![active_sessions[call.session_id]].status = "failed"]
                 ELSE h1
       IN /\ calls' = calls (-) SetToBag({call})
          /\ heap' = Collect(h2, active_sessions, calls')
  /\ UNCHANGED << active_sessions, current_state, other_vars >>

NextRaising ==
  \/ \E session_id \in SessionIds, max_iterations \in 1..MaxMaxIterations :
       start_begin(session_id, max_iterations)
  \/ \E call \in Calls : start_finish(call)
  \/ \E op \in Advance, session_id \in SessionIds :
       serial_advance_finalize(op, session_id)
  \/ \E op \in Advance, session_id \in SessionIds :
       serial_advance_begin(op, session_id)
  \/ \E call \in Calls : advance_finish(call)
  \/ \E call \in Calls : advance_raises(call)
  \/ \E session_id \in SessionIds : cleanup_session(session_id)

SpecRaising == Init /\ [][NextRaising]_vars

\* --------------------------------------------------- agent_messages ledger
\* The persisted ledger of one session.  DatabaseService.create_agent_message
\* awaits MessageRepository.get_next_sequence_number and then awaits
\* MessageRepository.create_message; each is one statement of its own
\* transaction, and the index on (session_id, sequence_number) is not unique.

\* select coalesce(max(sequence_number), 0) + 1
get_next_sequence_number(rows) ==
  IF rows = << >> THEN 1
  ELSE (CHOOSE m \in { rows[i].sequence_number : i \in 1..Len(rows) } :
          \A i \in 1..Len(rows) : rows[i].sequence_number <= m) + 1

\* create_agent_message up to the return of get_next_sequence_number
create_agent_message_begin(agent_type) ==
  /\ BagCardinality(db_calls) < MaxDbInFlight
  /\ Len(agent_messages) + BagCardinality(db_calls) < MaxRows
  /\ db_calls' = db_calls (+) SetToBag({
                   [agent_type |-> agent_type,
                    sequence_number |-> get_next_sequence_number(agent_messages)] })
  /\ UNCHANGED << agent_messages, engine_vars, team_lead_return, api_vars, component_vars >>

\* create_agent_message from there: MessageRepository.create_message
\* inserts the row with the number read before
create_message(db_call) ==
  /\ db_call \in BagToSet(db_calls)
  /\ agent_messages' = Append(agent_messages, db_call)
  /\ db_calls' = db_calls (-) SetToBag({db_call})
  /\ UNCHANGED << engine_vars, team_lead_return, api_vars, component_vars >>

\* The create_agent_message calls that may be in progress.
DbCalls == [agent_type : AgentType, sequence_number : 1..MaxRows]

NextDb ==
  \/ \E agent_type \in AgentType : create_agent_message_begin(agent_type)
  \/ \E db_call \in DbCalls : create_message(db_call)

SpecDb == Init /\ [][NextDb]_vars

\* ------------------------------------------------- TeamLeadAgent on its own
\* TeamLeadAgent.process called with a context and returning a response
\* for the text its generation call produced.  The agent keeps nothing
\* between calls that process reads, so one call per behaviour is modelled.
TeamLeadProcess(current_iteration, max_iterations, text) ==
  /\ team_lead_return = << >>
  /\ team_lead_return' =
       << [current_iteration |-> current_iteration,
           max_iterations |-> max_iterations,
           text |-> text,
           response |-> team_lead_process(text, current_iteration, max_iterations)] >>
  /\ UNCHANGED << engine_vars, db_vars, api_vars, component_vars >>

\* TeamLeadAgent.process when the generation call or a handler raises: the
\* except branch answers; there is no text (the empty text stands for it).
TeamLeadProcessFails(current_iteration, max_iterations) ==
  /\ team_lead_return = << >>
  /\ team_lead_return' =
       << [current_iteration |-> current_iteration,
           max_iterations |-> max_iterations,
           text |-> [kw |-> {}, reqs |-> FALSE, fp |-> "none"],
           response |-> Response(ERROR, FALSE, ErrorContent, "0.1", TRUE)] >>
  /\ UNCHANGED << engine_vars, db_vars, api_vars, component_vars >>

NextTeamLead ==
  \E current_iteration \in 0..MaxTurns, max_iterations \in 1..MaxMaxIterations :
    \/ \E text \in Texts : TeamLeadProcess(current_iteration, max_iterations, text)
    \/ TeamLeadProcessFails(current_iteration, max_iterations)

SpecTeamLead == Init /\ [][NextTeamLead]_vars

\* ------------------------------------------------------ the HTTP routes
\* backend/src/api/sessions.py and backend/src/api/user_input.py.  Each
\* module builds an AgentOrchestrationEngine of its own (sessions.py:26,
\* user_input.py:25).  The engine of sessions.py is the one modelled by
\* active_sessions, heap, current_state and calls.  Nothing calls
\* start_prompt_generation_session on the engine of user_input.py, so its
\* active_sessions stays empty.
UserInputEngineSessions == EmptyDict

START_SESSION_BACKGROUND == "_start_session_background"
PROCESS_USER_INPUT_BACKGROUND == "_process_user_input_background"

\* Bound on SessionCreateRequest.max_interventions (ge=1).
MaxMaxInterventions == 2

\* Bound on the number of user-input requests accepted for one session.
MaxUserInputs == 3

\* Bound on the background tasks scheduled and not yet run.
MaxTasks == 2

SessionStatus ==
  { "active", "processing", "waiting_for_user_input", "completed", "failed",
    "cancelled" }

\* a new row of the sessions table
SessionModel(max_interventions) ==
  [status |-> "active", user_intervention_count |-> 0,
   max_interventions |-> max_interventions]

\* POST /sessions: inserts the row and schedules the start of the
\* collaboration.
create_session(session_id, max_iterations, max_interventions) ==
  /\ session_id \notin DOMAIN sessions
  /\ sessions' = Put(sessions, session_id, SessionModel(max_interventions))
  /\ background_tasks' = background_tasks (+) SetToBag({
       [task |-> START_SESSION_BACKGROUND, session_id |-> session_id,
        max_iterations |-> max_iterations] })
  /\ UNCHANGED << engine_vars, db_vars, team_lead_return, component_vars >>

\* _start_session_background up to the await inside
\* start_prompt_generation_session (which returns in start_finish)
start_session_background(task) ==
  /\ task \in BagToSet(background_tasks)
  /\ task.task = START_SESSION_BACKGROUND
  /\ background_tasks' = background_tasks (-) SetToBag({task})
  /\ start_session(task.session_id, task.max_iterations)
  /\ UNCHANGED << sessions, db_vars, team_lead_return, component_vars >>

\* POST /sessions/{id}/user-input: 404 without a row, 400 unless the status
\* admits input; otherwise the input is stored, the intervention counted,
\* the status set and the processing scheduled.
add_user_input(session_id) ==
  /\ session_id \in DOMAIN sessions
  /\ sessions[session_id].status \in
       { "active", "processing", "waiting_for_user_input" }
  /\ sessions[session_id].user_intervention_count < MaxUserInputs
  /\ BagCardinality(background_tasks) < MaxTasks
  /\ sessions' = [sessions EXCEPT
                    ![session_id].user_intervention_count = @ + 1,
                    ![session_id].status = "processing"]
  /\ background_tasks' = background_tasks (+) SetToBag({
       [task |-> PROCESS_USER_INPUT_BACKGROUND, session_id |-> session_id,
        max_iterations |-> 0] })
  /\ UNCHANGED << engine_vars, db_vars, team_lead_return, component_vars >>

\* _process_user_input_background: process_user_input of the engine of
\* user_input.py raises "Session not found"; the task logs the error and
\* marks the stored input as failed.
process_user_input_background(task) ==
  /\ task \in BagToSet(background_tasks)
  /\ task.task = PROCESS_USER_INPUT_BACKGROUND
  /\ task.session_id \notin DOMAIN UserInputEngineSessions
  /\ background_tasks' = background_tasks (-) SetToBag({task})
  /\ UNCHANGED << sessions, engine_vars, db_vars, team_lead_return, component_vars >>

\* POST /sessions/{id}/continue: 404 without a row, 400 unless the session
\* waits or processes; the status is committed, then continue_without_input
\* of the engine of user_input.py raises "Session not found" (answer 500).
continue_session(session_id) ==
  /\ session_id \in DOMAIN sessions
  /\ sessions[session_id].status \in { "waiting_for_user_input", "processing" }
  /\ session_id \notin DOMAIN UserInputEngineSessions
  /\ sessions' = [sessions EXCEPT ![session_id].status = "processing"]
  /\ UNCHANGED << background_tasks, engine_vars, db_vars, team_lead_return, component_vars >>

\* DELETE /sessions/{id}: 404 without a row, 400 when completed or
\* cancelled; otherwise the row is marked and cleanup_session is called on
\* the engine of sessions.py, which removes a completed or failed session
\* only.
cancel_session(session_id) ==
  /\ session_id \in DOMAIN sessions
  /\ sessions[session_id].status \notin { "completed", "cancelled" }
  /\ sessions' = [sessions EXCEPT ![session_id].status = "cancelled"]
  /\ IF /\ session_id \in DOMAIN active_sessions
        /\ heap[active_sessions[session_id]].status \in { "completed", "failed" }
     THEN /\ active_sessions' = Del(active_sessions, session_id)
          /\ heap' = Collect(heap, active_sessions', calls)
     ELSE UNCHANGED << active_sessions, heap >>
  /\ UNCHANGED << current_state, calls, background_tasks, db_vars,
                  team_lead_return, component_vars >>

\* The background tasks that may be scheduled.
Tasks ==
  [task : { START_SESSION_BACKGROUND, PROCESS_USER_INPUT_BACKGROUND },
   session_id : SessionIds, max_iterations : 0..MaxMaxIterations]

NextApi ==
  \/ \E session_id \in SessionIds, max_iterations \in 1..MaxMaxIterations,
        max_interventions \in 1..MaxMaxInterventions :
       create_session(session_id, max_iterations, max_interventions)
  \/ \E task \in Tasks : start_session_background(task)
  \/ \E call \in Calls : start_finish(call)
  \/ \E session_id \in SessionIds : add_user_input(session_id)
  \/ \E task \in Tasks : process_user_input_background(task)
  \/ \E session_id \in SessionIds : continue_session(session_id)
  \/ \E session_id \in SessionIds : cancel_session(session_id)

SpecApi == Init /\ [][NextApi]_vars

\* ------------------------------------------ scenario: rejected twice
\* One session with max_iterations = 3, started once and advanced by one
\* call at a time.  Its Team Lead reviews at iterations 0 and 1 are the
\* responses classified REJECTION; at iteration 2 the Team Lead's text is
\* any text without a strong-rejection keyword.  The other two agents answer
\* as they may.
ScenarioD == [max_iterations |-> 3]

\* Bound on the turns of the scenario's session.
MaxScenarioTurns == 7

\* TeamLeadAgent.process in the scenario, by context.current_iteration
ScenarioTeamLeadResponses ==
  [current_iteration \in 0..(ScenarioD.max_iterations - 1) |->
     IF current_iteration < ScenarioD.max_iterations - 1
     THEN { r \in { team_lead_process(t, current_iteration,
                                      ScenarioD.max_iterations) : t \in Texts } :
              r.message_type = REJECTION }
     ELSE { team_lead_process(t, current_iteration, ScenarioD.max_iterations) :
              t \in { u \in Texts : u.kw \cap strong_rejection_indicators = {} } }]

\* next_agent.process(context) in the scenario
ScenarioResponses(call) ==
  IF call.agent = TEAM_LEAD
  THEN IF call.current_iteration \in DOMAIN ScenarioTeamLeadResponses
       THEN ScenarioTeamLeadResponses[call.current_iteration]
       ELSE {}
  ELSE AgentResponses(call.agent, call.current_iteration, call.max_iterations)

scenario_start(session_id) ==
  /\ active_sessions = EmptyDict
  /\ start_begin(session_id, ScenarioD.max_iterations)

scenario_advance_finalize(op, session_id) ==
  calls = EmptyBag /\ advance_finalize(op, session_id)

scenario_advance_begin(op, session_id) ==
  /\ calls = EmptyBag
  /\ session_id \in DOMAIN active_sessions
  /\ Len(heap[active_sessions[session_id]].conversation_history) < MaxScenarioTurns
  /\ advance_call(op, session_id)

scenario_advance_finish(call) ==
  /\ call \in BagToSet(calls)
  /\ \E agent_response \in ScenarioResponses(call) :
       advance_return(call, agent_response)

\* The calls that may be suspended in the scenario.
ScenarioCalls ==
  [op : { START } \cup Advance, session_id : SessionIds,
   ref : 1..(MaxInFlight + 1), agent : AgentType,
   current_iteration : 0..ScenarioD.max_iterations,
   max_iterations : { ScenarioD.max_iterations }]

NextScenarioD ==
  \/ \E session_id \in SessionIds : scenario_start(session_id)
  \/ \E call \in ScenarioCalls : start_finish(call)
  \/ \E op \in Advance, session_id \in SessionIds :
       scenario_advance_finalize(op, session_id)
  \/ \E op \in Advance, session_id \in SessionIds :
       scenario_advance_begin(op, session_id)
  \/ \E call \in ScenarioCalls : scenario_advance_finish(call)

SpecScenarioD == Init /\ [][NextScenarioD]_vars

\* ------------------------------------------------ two sessions, one engine
\* One engine serving two session ids.  The advance calls of the two
\* sessions overlap; a start happens while no call is suspended, under an
\* id that is not registered.
TwoSessionIds == { "s1", "s2" }

\* Bound on the turns of the two sessions together.
MaxSharedTurns == 4

\* The turns recorded for the registered sessions among ids.
RECURSIVE RecordedTurns(_)
RecordedTurns(ids) ==
  IF ids = {} THEN 0
  ELSE LET session_id == CHOOSE x \in ids : TRUE
       IN  (IF session_id \in DOMAIN active_sessions
            THEN Len(heap[active_sessions[session_id]].conversation_history)
            ELSE 0)
           + RecordedTurns(ids \ { session_id })

shared_start(session_id, max_iterations) ==
  /\ session_id \notin DOMAIN active_sessions
  /\ RecordedTurns(TwoSessionIds) < MaxSharedTurns
  /\ start_begin(session_id, max_iterations)

shared_advance_begin(op, session_id) ==
  /\ BagCardinality(calls) < MaxInFlight
  /\ \A c \in BagToSet(calls) : c.session_id # session_id
  /\ RecordedTurns(TwoSessionIds) + BagCardinality(calls) < MaxSharedTurns
  /\ advance_call(op, session_id)

\* The calls that may be suspended on the engine of two sessions.
SharedCalls ==
  [op : { START } \cup Advance, session_id : TwoSessionIds,
   ref : 1..(MaxInFlight + 1), agent : AgentType,
   current_iteration : 0..MaxSharedTurns, max_iterations : 1..MaxMaxIterations]

NextShared ==
  \/ \E session_id \in TwoSessionIds, max_iterations \in 1..MaxMaxIterations :
       shared_start(session_id, max_iterations)
  \/ \E call \in SharedCalls : start_finish(call)
  \/ \E op \in Advance, session_id \in TwoSessionIds :
       advance_finalize(op, session_id)
  \/ \E op \in Advance, session_id \in TwoSessionIds :
       shared_advance_begin(op, session_id)
  \/ \E call \in SharedCalls : advance_finish(call)
  \/ \E session_id \in TwoSessionIds : cleanup_session(session_id)

SpecShared == Init /\ [][NextShared]_vars

\* ------------------------------------------- AgentContextManager in use
\* One manager, its methods called one after the other (they are
\* synchronous), and time passing.

\* Bound on the context entries held.
MaxContextEntries == 2

\* Bound on the conversation turns held.
MaxContextTurns == 1

\* Bound on the two counters.
MaxContextCount == 2

ContextKeys == { "k" }

ContextValues == { [text |-> "v1"], [text |-> "v2"] }

ContextScopes == { SESSION, ITERATION }

\* The arguments of a build_agent_context call.
BuildArguments ==
  { [user_requirements |-> "r1", supplementary_inputs |-> << >>,
     clarifying_questions |-> << >>],
    [user_requirements |-> "r2", supplementary_inputs |-> << >>,
     clarifying_questions |-> << >>],
    [user_requirements |-> "r1", supplementary_inputs |-> << "input" >>,
     clarifying_questions |-> << "question" >>] }

\* AgentContextManager.export_context of some manager: what import_context
\* is given.
ExportedContexts ==
  { [context_entries |-> << >>, conversation_history |-> << >>,
     current_iteration |-> 0, max_iterations |-> DefaultMaxIterations,
     user_intervention_count |-> 0, max_interventions |-> DefaultMaxInterventions],
    [context_entries |-> << ContextEntry("k", [text |-> "v2"], SESSION) >>,
     conversation_history |-> << ConversationTurn(PRODUCT_MANAGER, REQUIREMENT) >>,
     current_iteration |-> 1, max_iterations |-> 2,
     user_intervention_count |-> 1, max_interventions |-> 1] }

outside_context ==
  << engine_vars, db_vars, team_lead_return, api_vars, glm_call, conversation_vars,
     validation_return, repository_vars, rate_limiter >>

\* A method other than build_agent_context leaves the manager as cm.
Leaves(cm) ==
  /\ context_manager' = cm
  /\ build_return' = << >>
  /\ UNCHANGED outside_context

add_context_entry(key, value, scope) ==
  /\ Len(context_manager.context_entries) < MaxContextEntries
  /\ Leaves(add_entry(context_manager, key, value, scope))

update_context_entry(key, value, scope) ==
  /\ key \in ContextKeys
  /\ Leaves(update_entry(context_manager, key, value, scope))

remove_context_entry(key, scope) ==
  /\ key \in ContextKeys
  /\ Leaves(remove_entry(context_manager, key, scope))

add_conversation_turn(agent_type, message_type) ==
  /\ Len(context_manager.conversation_history) < MaxContextTurns
  /\ Leaves(add_turn(context_manager, agent_type, message_type))

\* AgentContextManager.build_agent_context: the cached context while the
\* cache is valid, otherwise a new one, which is cached
build_agent_context(args) ==
  /\ IF is_cache_valid(context_manager)
     THEN /\ build_return' = << [args |-> args,
                                 context |-> context_manager.cached_context[1]] >>
          /\ UNCHANGED context_manager
     ELSE LET context == NewAgentContext(context_manager, args)
          IN  /\ context_manager' = [context_manager EXCEPT
                                       !.cached_context = << context >>,
                                       !.cache_fresh = TRUE]
              /\ build_return' = << [args |-> args, context |-> context] >>
  /\ UNCHANGED outside_context

increment_iteration ==
  /\ context_manager.current_iteration < MaxContextCount
  /\ Len(context_manager.context_entries) < MaxContextEntries
  /\ Leaves(increment_iteration_of(context_manager))

increment_user_intervention ==
  /\ context_manager.user_intervention_count < MaxContextCount
  /\ Len(context_manager.context_entries) < MaxContextEntries
  /\ Leaves(increment_user_intervention_of(context_manager))

reset_iteration ==
  /\ Len(context_manager.context_entries) < MaxContextEntries
  /\ Leaves(reset_iteration_of(context_manager))

import_context(exported_context) ==
  /\ exported_context \in ExportedContexts
  /\ Leaves(import_context_into(context_manager, exported_context))

\* _cache_ttl passes since the context was cached
cache_ttl_elapses ==
  /\ context_manager.cache_fresh
  /\ Leaves([context_manager EXCEPT !.cache_fresh = FALSE])

NextContext ==
  \/ \E key \in ContextKeys, value \in ContextValues, scope \in ContextScopes :
       add_context_entry(key, value, scope)
  \/ \E key \in ContextKeys, value \in ContextValues,
        scope \in ContextScopes \cup { NoScope } :
       update_context_entry(key, value, scope)
  \/ \E key \in ContextKeys, scope \in ContextScopes \cup { NoScope } :
       remove_context_entry(key, scope)
  \/ \E agent_type \in AgentType, message_type \in { REQUIREMENT, REVIEW } :
       add_conversation_turn(agent_type, message_type)
  \/ \E args \in BuildArguments : build_agent_context(args)
  \/ increment_iteration
  \/ increment_user_intervention
  \/ reset_iteration
  \/ \E exported_context \in ExportedContexts : import_context(exported_context)
  \/ cache_ttl_elapses

SpecContext == Init /\ [][NextContext]_vars

\* ---------------------------------------------------------------------
\* The GLM client: one chat_completion call after another
\* ---------------------------------------------------------------------

\* settings.GLM_MAX_RETRIES is 3; the runs take every value up to the bound
MaxMaxRetries == 3

StatusCodes == { 400, 401, 429, 500, 502, 503, 504 }

\* What the transport may answer to one request.
Outcomes ==
  { Completion, Malformed, TimeoutException, NetworkError }
    \cup { HTTPStatusError(status_code, json_body) :
             status_code \in StatusCodes, json_body \in BOOLEAN }

outside_client ==
  << engine_vars, db_vars, team_lead_return, api_vars, context_vars,
     conversation_vars, validation_return, repository_vars, rate_limiter >>

\* GLMApiClient.chat_completion is called: no call is running.
chat_completion(max_retries) ==
  /\ glm_call.state # "running"
  /\ glm_call' = NewCall(max_retries)
  /\ UNCHANGED outside_client

\* GLMApiClient._make_request inside the retry loop, for attempt in
\* range(self.max_retries + 1), and what the loop does with its outcome.
\* Every pass at attempt = max_retries returns or raises, so the statement
\* after the loop (raise last_exception) is never reached.
make_request(outcome) ==
  /\ glm_call.state = "running"
  /\ glm_call.attempt \in 0..glm_call.max_retries
  /\ glm_call' = chat_completion_attempt(glm_call, outcome)
  /\ UNCHANGED outside_client

NextClient ==
  \/ \E max_retries \in 0..MaxMaxRetries : chat_completion(max_retries)
  \/ \E outcome \in Outcomes : make_request(outcome)

SpecClient == Init /\ [][NextClient]_vars

\* ---------------------------------------------------------------------
\* The conversation manager: its methods called one after another
\* ---------------------------------------------------------------------

\* the ids (messages and threads) a manager hands out in a run
MaxConversationIds == 3

\* the messages a manager holds at a time
MaxMessages == 2

MaxTurnNumber == 1

Words == { "cache", "retry" }

\* the contents and the queries: one word or two different words
Contents ==
  { << w >> : w \in Words }
    \cup { pair \in { << v, w >> : v, w \in Words } : pair[1] # pair[2] }

ConversationMessageTypes == { REVIEW, QUESTION }

\* a manager of another session, with a question and its answer
OtherManager ==
  LET asked == add_message_to(NewConversationManager(10), << "cache" >>,
                              QUESTION, << >>)
  IN  add_message_to(start_new_turn_of(asked), << "retry", "cache" >>, REVIEW,
                     << asked.messages[1].id >>)

\* what export_conversation gave for some manager
ExportedConversations ==
  { export_conversation(NewConversationManager(10)),
    export_conversation(OtherManager) }

MessageIds(cm) == { cm.messages[i].id : i \in 1..Len(cm.messages) }

outside_conversation ==
  << engine_vars, db_vars, team_lead_return, api_vars, context_vars, glm_call,
     validation_return, repository_vars, rate_limiter >>

\* ConversationManager.add_message
add_message(content, message_type, parent_id) ==
  /\ Len(conversation_manager.messages) < MaxMessages
  /\ conversation_manager.last_id
       + (IF conversation_manager.current_thread_id = << >> THEN 2 ELSE 1)
       <= MaxConversationIds
  /\ IF parent_id = << >> THEN TRUE
     ELSE parent_id[1] \in MessageIds(conversation_manager)
  /\ conversation_manager' =
       add_message_to(conversation_manager, content, message_type, parent_id)
  /\ conversation_return' =
       [method |-> "add_message", result |-> conversation_manager'.last_id]
  /\ UNCHANGED outside_conversation

\* ConversationManager.delete_message
delete_message(message_id, cascade) ==
  /\ conversation_manager' = delete_message_of(conversation_manager, message_id, cascade)
  /\ conversation_return' =
       [method |-> "delete_message", message_id |-> message_id, cascade |-> cascade,
        result |-> delete_message_returns(conversation_manager, message_id, cascade)]
  /\ UNCHANGED outside_conversation

\* ConversationManager.search_messages
search_messages(query) ==
  /\ conversation_manager.messages # << >>
  /\ conversation_return' =
       [method |-> "search_messages", query |-> query,
        result |-> search_messages_in(conversation_manager, query, default_limit)]
  /\ UNCHANGED << conversation_manager, outside_conversation >>

\* ConversationManager.start_new_turn
start_new_turn ==
  /\ conversation_manager.current_turn < MaxTurnNumber
  /\ conversation_manager' = start_new_turn_of(conversation_manager)
  /\ conversation_return' =
       [method |-> "start_new_turn", result |-> conversation_manager'.current_turn]
  /\ UNCHANGED outside_conversation

\* ConversationManager.import_conversation
import_conversation(conversation_data) ==
  /\ conversation_data \in ExportedConversations
  /\ conversation_manager' =
       import_conversation_into(conversation_manager, conversation_data)
  /\ conversation_return' =
       [method |-> "import_conversation", conversation_data |-> conversation_data]
  /\ UNCHANGED outside_conversation

NextConversation ==
  \/ \E content \in Contents, message_type \in ConversationMessageTypes,
        parent_id \in { << >> } \cup { << id >> : id \in 1..MaxConversationIds } :
       add_message(content, message_type, parent_id)
  \/ \E message_id \in 1..MaxConversationIds, cascade \in BOOLEAN :
       delete_message(message_id, cascade)
  \/ \E query \in Contents : search_messages(query)
  \/ start_new_turn
  \/ \E conversation_data \in ExportedConversations :
       import_conversation(conversation_data)

SpecConversation == Init /\ [][NextConversation]_vars

\* ---------------------------------------------------------------------
\* The Product Manager validates a parsed response
\* ---------------------------------------------------------------------

\* The contents the generation call may return for the Product Manager.
GeneratedContents ==
  [length : { "short", "medium", "long" }, padded : BOOLEAN,
   structure : { "none", "lists", "headers", "hash" },
   lines : { "few", "many" }, question : BOOLEAN, corrected : { {} }]

\* BaseAgent.process of the Product Manager from the parsed response on:
\* _validate_response and the validation of the agent.
ProductManagerValidates(generated, message_type) ==
  LET content == extract_content(generated)
  IN  /\ validation_return' =
           << [content |-> content, message_type |-> message_type,
               validation_result |-> validate_response(content, message_type),
               response_content |-> agent_specific_validation(content, message_type)] >>
      /\ UNCHANGED << engine_vars, db_vars, team_lead_return, api_vars, context_vars,
                      glm_call, conversation_vars, repository_vars, rate_limiter >>

NextValidation ==
  \E generated \in GeneratedContents, message_type \in ProductManagerTypes :
    ProductManagerValidates(generated, message_type)

SpecValidation == Init /\ [][NextValidation]_vars

\* ---------------------------------------------------------------------
\* A SessionRepository on one database
\* ---------------------------------------------------------------------

\* The session ids of the rows.
RepositoryIds == { "s1", "s2" }

\* Bound on the rows of session_waiting_states.
MaxWaitingStates == 2

outside_repository ==
  << engine_vars, db_vars, team_lead_return, api_vars, context_vars, glm_call,
     conversation_vars, validation_return, rate_limiter >>

\* A method of the repository returns result, leaving the database as db.
Returns(method, session_id, result, db) ==
  /\ repository' = db
  /\ repository_return' =
       [method |-> method, session_id |-> session_id, result |-> result]
  /\ UNCHANGED outside_repository

\* A row is inserted into sessions with the defaults of the model
\* (POST /sessions).
insert_session(session_id) ==
  /\ session_id \notin DOMAIN repository.sessions
  /\ repository' = [repository EXCEPT !.sessions = Put(@, session_id, SessionRow)]
  /\ repository_return' = NoReturn
  /\ UNCHANGED outside_repository

\* SessionRepository.update_session_status
update_session_status(session_id, status) ==
  IF session_id \in DOMAIN repository.sessions
  THEN Returns("update_session_status", session_id, TRUE,
               update_session_status_in(repository, session_id, status))
  ELSE Returns("update_session_status", session_id, FALSE, repository)

\* SessionRepository.set_waiting_state
set_waiting_state(session_id) ==
  /\ Len(repository.waiting_states) < MaxWaitingStates
  /\ IF session_id \in DOMAIN repository.sessions
     THEN Returns("set_waiting_state", session_id, TRUE,
                  set_waiting_state_in(repository, session_id))
     ELSE Returns("set_waiting_state", session_id, FALSE, repository)

\* SessionRepository.clear_waiting_state
clear_waiting_state(session_id) ==
  IF session_id \in DOMAIN repository.sessions
  THEN Returns("clear_waiting_state", session_id, TRUE,
               clear_waiting_state_in(repository, session_id))
  ELSE Returns("clear_waiting_state", session_id, FALSE, repository)

\* SessionRepository.cancel_session
repository_cancel_session(session_id) ==
  IF session_id \in DOMAIN repository.sessions
  THEN Returns("cancel_session", session_id, TRUE,
               cancel_session_in(repository, session_id))
  ELSE Returns("cancel_session", session_id, FALSE, repository)

NextRepository ==
  \/ \E session_id \in RepositoryIds : insert_session(session_id)
  \/ \E session_id \in RepositoryIds, status \in SessionStatus :
       update_session_status(session_id, status)
  \/ \E session_id \in RepositoryIds : set_waiting_state(session_id)
  \/ \E session_id \in RepositoryIds : clear_waiting_state(session_id)
  \/ \E session_id \in RepositoryIds : repository_cancel_session(session_id)

SpecRepository == Init /\ [][NextRepository]_vars

\* ---------------------------------------------------------------------
\* Callers of one RateLimiter
\* ---------------------------------------------------------------------

\* Bound on requests_per_minute.
MaxRequestsPerMinute == 2

\* The seconds by which the clock advances in one step.
TickSeconds == 30

\* Bound on the clock, in seconds.
MaxClock == 180

\* Bound on the calls of wait_if_needed.
MaxAdmissions == 4

outside_rate_limiter ==
  << engine_vars, db_vars, team_lead_return, api_vars, context_vars, glm_call,
     conversation_vars, validation_return, repository_vars >>

\* RateLimiter(requests_per_minute) is constructed.
rate_limiter_init(requests_per_minute) ==
  /\ rate_limiter.requests_per_minute = 0
  /\ rate_limiter' = [RateLimiter(requests_per_minute) EXCEPT !.now = rate_limiter.now]
  /\ UNCHANGED outside_rate_limiter

\* Time passes; a sleep ends at its wake-up time, not later.
tick ==
  /\ rate_limiter.now + TickSeconds <= MaxClock
  /\ LET later == rate_limiter.now + TickSeconds
     IN  rate_limiter' =
           [rate_limiter EXCEPT !.now =
              IF rate_limiter.sleeping # << >>
              THEN IF rate_limiter.now >= rate_limiter.sleeping[1].wake
                   THEN rate_limiter.now
                   ELSE IF later > rate_limiter.sleeping[1].wake
                        THEN rate_limiter.sleeping[1].wake ELSE later
              ELSE later]
  /\ rate_limiter'.now # rate_limiter.now
  /\ UNCHANGED outside_rate_limiter

\* A caller of wait_if_needed gets the lock: nobody holds it.  Callers that
\* wait for the lock enter in later steps.
wait_if_needed ==
  /\ rate_limiter.requests_per_minute > 0
  /\ rate_limiter.sleeping = << >>
  /\ Len(rate_limiter.admitted) < MaxAdmissions
  /\ rate_limiter' = wait_if_needed_enter(rate_limiter)
  /\ UNCHANGED outside_rate_limiter

\* The sleep of the caller holding the lock is over.
wait_if_needed_wakes ==
  /\ rate_limiter.sleeping # << >>
  /\ IF rate_limiter.sleeping # << >>
     THEN rate_limiter.now >= rate_limiter.sleeping[1].wake ELSE FALSE
  /\ rate_limiter' = wait_if_needed_resume(rate_limiter)
  /\ UNCHANGED outside_rate_limiter

NextRateLimiter ==
  \/ \E requests_per_minute \in 1..MaxRequestsPerMinute :
       rate_limiter_init(requests_per_minute)
  \/ tick
  \/ wait_if_needed
  \/ wait_if_needed_wakes

SpecRateLimiter == Init /\ [][NextRateLimiter]_vars

\* ------------------------------------------------------------- properties
\* The session_data registered for session_id.
SessionData(session_id) == heap[active_sessions[session_id]]

\* Call c reaches its await in this step.
Begins(c) == c \in BagToSet(calls') /\ calls' = calls (+) SetToBag({c})

\* Call c resumes from its await and runs to its end in this step.
Finishes(c) == c \in BagToSet(calls) /\ calls' = calls (-) SetToBag({c})

\* The session_data objects that exist before and after this step.
Kept == DOMAIN heap \cap DOMAIN heap'

\* The category of the response call c received in the step it finishes in.
Category(c) == heap'[c.ref].agent_outputs[c.agent].message_type

\* The response call c received was built by the agent's except branch.
Failed(c) == heap'[c.ref].agent_outputs[c.agent].confidence \in { "0.0", "0.1" }

\* Message m records the response of an agent's except branch.
FailureTurn(m) ==
  \/ m.message_type = ERROR
  \/ m.agent_type = PRODUCT_MANAGER /\ m.message_type = REVIEW

\* No agent invocation of the session has failed.
NoFailedTurn(session_data) ==
  \A i \in 1..Len(session_data.conversation_history) :
     ~FailureTurn(session_data.conversation_history[i])

\* The recorded Team Lead reviews of a session.
TeamLeadRounds(session_data) ==
  Cardinality({ i \in 1..Len(session_data.conversation_history) :
                  session_data.conversation_history[i].agent_type = TEAM_LEAD })

\* C1: a session is completed after at most max_iterations Team Lead review
\* rounds.  Finite-run form: on a session none of whose agent invocations
\* failed, no Team Lead invocation begins once max_iterations Team Lead
\* reviews are recorded.
C1_TerminatesWithinBudget ==
  [][\A c \in BagToSet(calls') :
       (Begins(c) /\ c.op \in Advance /\ c.agent = TEAM_LEAD
          /\ NoFailedTurn(heap[c.ref]))
         => TeamLeadRounds(heap[c.ref]) < c.max_iterations]_vars

\* C2: in every session current_iteration never decreases and never exceeds
\* max_iterations (stated for the sessions none of whose agent invocations
\* failed).
C2_IterationMonotoneAndBounded ==
  [][\A i \in DOMAIN heap' :
       NoFailedTurn(heap'[i])
         => /\ heap'[i].current_iteration <= heap'[i].max_iterations
            /\ i \in DOMAIN heap
                 => heap'[i].current_iteration >= heap[i].current_iteration]_vars

\* The agent invocations in flight for session_id.
InFlight(session_id) ==
  BagCardinality([c \in { x \in BagToSet(calls) : x.session_id = session_id }
                    |-> calls[c]])

\* C3: at most one agent invocation is in flight per session at any time
\* (stated for the sessions none of whose agent invocations failed).
C3_OneInvocationInFlight ==
  \A session_id \in DOMAIN active_sessions :
     NoFailedTurn(SessionData(session_id)) => InFlight(session_id) <= 1

\* C4: within a session the sequence numbers of the turns are unique and
\* strictly increasing in append order, also under concurrent appends.
C4_SequenceNumbersIncrease ==
  \A i, j \in 1..Len(agent_messages) :
     i < j => agent_messages[i].sequence_number < agent_messages[j].sequence_number

\* The ledger the engine keeps in memory, for comparison with C4: the ids
\* of conversation_history are 1, 2, ... in append order, whatever calls
\* overlap (_add_to_conversation_history has no await between reading the
\* length and appending).
ConversationHistoryIdsInOrder ==
  \A i \in DOMAIN heap :
     \A k \in 1..Len(heap[i].conversation_history) :
        heap[i].conversation_history[k].id = k

\* C5: once a session's state is COMPLETED or FAILED no operation changes
\* any of its fields (stated for the sessions none of whose agent
\* invocations failed).
C5_TerminalSessionFrozen ==
  [][\A i \in Kept :
       (heap[i].state \in { COMPLETED, FAILED } /\ NoFailedTurn(heap[i]))
         => heap'[i] = heap[i]]_vars

\* C6: when an agent invocation fails, the session's state and
\* current_iteration after the step equal their values before the step (so
\* the next advance invokes the same agent again).
C6_FailureLeavesSessionInPlace ==
  [][\A c \in BagToSet(calls) :
       (Finishes(c) /\ c.ref \in Kept /\ Failed(c))
         => /\ heap'[c.ref].state = heap[c.ref].state
            /\ heap'[c.ref].current_iteration = heap[c.ref].current_iteration
            /\ determine_next_agent(heap'[c.ref]) = c.agent]_vars

\* C7: whenever the Team Lead decides at current_iteration =
\* max_iterations - 1, the category is REJECTION if the text contains a
\* strong-rejection phrase and APPROVAL otherwise; never QUESTION or REVIEW.
C7_ForcedConvergence ==
  \A i \in 1..Len(team_lead_return) :
     LET r == team_lead_return[i]
     IN  (r.current_iteration = r.max_iterations - 1 /\ ~r.response.failed)
           => r.response.message_type =
                IF r.text.kw \cap strong_rejection_indicators # {}
                THEN REJECTION ELSE APPROVAL

\* The transition function as specified: the state that follows state when
\* a turn of the given category is recorded.
next_state(state, category, current_iteration, max_iterations) ==
  IF category = APPROVAL
  THEN IF state = TEAM_LEAD_REVIEW THEN COMPLETED ELSE TEAM_LEAD_REVIEW
  ELSE IF category = REJECTION THEN FEEDBACK_PROCESSING
  ELSE IF category = QUESTION THEN state
  ELSE CASE state = REQUIREMENTS_ANALYSIS -> TECHNICAL_DESIGN
         [] state = TECHNICAL_DESIGN -> TEAM_LEAD_REVIEW
         [] state = FEEDBACK_PROCESSING ->
              IF current_iteration >= max_iterations - 1
              THEN FINAL_APPROVAL ELSE TEAM_LEAD_REVIEW
         [] OTHER -> state

\* C8: the state stored by a start or advance step equals
\* next_state(state before, category of the turn, current_iteration,
\* max_iterations).
C8_StoredStateIsNextState ==
  [][\A c \in BagToSet(calls) :
       (Finishes(c) /\ c.ref \in Kept)
         => heap'[c.ref].state =
              next_state(heap[c.ref].state, Category(c),
                         heap[c.ref].current_iteration,
                         heap[c.ref].max_iterations)]_vars

\* The role the specified agent-selection function gives for a state.
RoleOf(state) ==
  CASE state = REQUIREMENTS_ANALYSIS -> PRODUCT_MANAGER
    [] state = TECHNICAL_DESIGN -> TECHNICAL_DEVELOPER
    [] state \in { TEAM_LEAD_REVIEW, FINAL_APPROVAL } -> TEAM_LEAD

\* C9: an advance step invokes the Product Manager in REQUIREMENTS_ANALYSIS,
\* the Technical Developer in TECHNICAL_DESIGN and the Team Lead in
\* TEAM_LEAD_REVIEW and FINAL_APPROVAL; a session (none of whose agent
\* invocations failed) leaves FINAL_APPROVAL only in a step in which a Team
\* Lead invocation returns.
C9_RoleDeterminedByState ==
  [][/\ \A c \in BagToSet(calls') :
          (Begins(c) /\ c.op \in Advance
             /\ heap[c.ref].state \in { REQUIREMENTS_ANALYSIS, TECHNICAL_DESIGN,
                                        TEAM_LEAD_REVIEW, FINAL_APPROVAL })
            => c.agent = RoleOf(heap[c.ref].state)
     /\ \A i \in Kept :
          (heap[i].state = FINAL_APPROVAL /\ heap'[i].state # FINAL_APPROVAL
             /\ NoFailedTurn(heap[i]))
            => \E c \in BagToSet(calls) :
                 Finishes(c) /\ c.ref = i /\ c.agent = TEAM_LEAD]_vars

\* C10: on both advance paths, a step that records a turn raises
\* current_iteration by one if the turn's category is APPROVAL and leaves
\* it unchanged otherwise; every other step leaves it unchanged (stated for
\* the sessions none of whose agent invocations failed).
C10_IterationCountsApprovals ==
  [][\A i \in Kept :
       NoFailedTurn(heap'[i]) =>
       IF \E c \in BagToSet(calls) : Finishes(c) /\ c.op \in Advance /\ c.ref = i
       THEN \A c \in BagToSet(calls) :
              (Finishes(c) /\ c.op \in Advance /\ c.ref = i)
                => heap'[i].current_iteration =
                     heap[i].current_iteration
                       + (IF Category(c) = APPROVAL THEN 1 ELSE 0)
       ELSE heap'[i].current_iteration = heap[i].current_iteration]_vars

\* --------------------------------------------------------------- C11..C20
\* C11: the number of user interventions counted for a session never
\* exceeds the session's max_interventions.
C11_InterventionsWithinCap ==
  \A session_id \in DOMAIN sessions :
    sessions[session_id].user_intervention_count
      <= sessions[session_id].max_interventions

\* The row of session_id says the session was cancelled.
Cancelled(session_id) ==
  session_id \in DOMAIN sessions /\ sessions[session_id].status = "cancelled"

\* C12: once a session is marked cancelled, no agent invocation is started
\* for it any more: no engine call for it reaches its await.
C12_NoInvocationAfterCancel ==
  [][\A c \in BagToSet(calls') : Begins(c) => ~Cancelled(c.session_id)]_vars

\* C13: when a call that was in flight at the cancellation returns, its
\* result is discarded: the session_data it holds (turns, state, status,
\* current_iteration, agent outputs) stays as it was.
C13_InFlightResultDiscarded ==
  [][\A c \in BagToSet(calls) :
       (Finishes(c) /\ Cancelled(c.session_id) /\ c.ref \in Kept)
         => heap'[c.ref] = heap[c.ref]]_vars

C15_FailureIsErrorWithZeroConfidence ==
  \A ref \in DOMAIN heap :
    \A agent \in DOMAIN heap[ref].agent_outputs :
      LET output == heap[ref].agent_outputs[agent]
      IN  output.content = ErrorContent
            => output.message_type = ERROR /\ output.confidence = "0.0"

\* C16: no failure is swallowed: when an invocation fails, a turn is
\* appended to the session's conversation history and its metadata carries
\* the error detail.
C16_FailedTurnCarriesErrorDetail ==
  [][\A c \in BagToSet(calls) :
       (/\ Finishes(c)
        /\ c.ref \in Kept
        /\ heap'[c.ref].agent_outputs[c.agent].content = ErrorContent)
       => LET before == heap[c.ref].conversation_history
              after == heap'[c.ref].conversation_history
          IN  /\ Len(after) = Len(before) + 1
              /\ after[Len(after)].agent_type = c.agent
              /\ "error" \in after[Len(after)].metadata]_vars

\* The background processing of a user input of session_id runs in this
\* step.
ProcessesUserInput(session_id) ==
  \E task \in BagToSet(background_tasks) :
    /\ task.task = PROCESS_USER_INPUT_BACKGROUND
    /\ task.session_id = session_id
    /\ background_tasks' = background_tasks (-) SetToBag({task})

\* C17: once the intervention cap is reached, processing a user input puts
\* the session, unless completed, on the FINAL_APPROVAL path instead of
\* leaving it in the review loop.  (The iteration half of the sentence is the
\* FEEDBACK_PROCESSING branch of determine_next_state.)
C17_CapForcesFinalApproval ==
  [][\A session_id \in DOMAIN sessions \cap DOMAIN active_sessions :
       (/\ ProcessesUserInput(session_id)
        /\ calls = EmptyBag
        /\ sessions[session_id].user_intervention_count
             >= sessions[session_id].max_interventions
        /\ session_id \in DOMAIN active_sessions')
       => heap'[active_sessions'[session_id]].state
            \in { FINAL_APPROVAL, COMPLETED }]_vars

\* What the engine holds for session_id: nothing, or its session_data.
Record(session_id) ==
  IF session_id \in DOMAIN active_sessions
  THEN << heap[active_sessions[session_id]] >>
  ELSE << >>

\* No step changes what the engine holds for a session other than the one
\* the step works for: a call that begins or returns leaves the other
\* session as it was, and no step changes both sessions.
Independent ==
  /\ \A c \in BagToSet(calls) \cup BagToSet(calls') :
       Begins(c) \/ Finishes(c)
         => \A session_id \in TwoSessionIds \ { c.session_id } :
              Record(session_id)' = Record(session_id)
  /\ \A s, t \in TwoSessionIds :
       s # t /\ Record(s)' # Record(s) => Record(t)' = Record(t)

C19_StatusChangesNothing ==
  [][\A session_id \in SessionIds :
       get_session_status(session_id) => UNCHANGED vars]_vars

\* C19 witness: a session with recorded turns that is being processed, with
\* a call suspended, while status queries are served.
C19_Witness ==
  \E session_id \in DOMAIN active_sessions :
    /\ Len(SessionData(session_id).conversation_history) >= 2
    /\ SessionData(session_id).status = "processing"
    /\ InFlight(session_id) >= 1

\* What a context shows of the manager (everything but the arguments of the
\* build call).
ManagerPart(context) ==
  [conversation_history |-> context.conversation_history,
   current_iteration |-> context.current_iteration,
   max_iterations |-> context.max_iterations,
   user_intervention_count |-> context.user_intervention_count,
   max_interventions |-> context.max_interventions,
   agent_outputs |-> context.agent_outputs,
   metadata |-> context.metadata]

\* The context the manager would build now.
CurrentPart ==
  ManagerPart(NewAgentContext(context_manager, CHOOSE args \in BuildArguments : TRUE))

\* C20: no context cached before a write survives it: whatever is cached
\* shows the manager's turns, counters and session entries as they are now,
\* and so does every context build_agent_context returns.
C20_CacheNeverStale ==
  /\ context_manager.cached_context # << >>
       => ManagerPart(context_manager.cached_context[1]) = CurrentPart
  /\ build_return # << >>
       => ManagerPart(build_return[1].context) = CurrentPart

\* C20 witness: a context is returned from the cache after writes of every
\* kind were made: the manager holds a turn, an entry and moved counters.
C20_Witness ==
  /\ build_return # << >>
  /\ context_manager.conversation_history # << >>
  /\ context_manager.context_entries # << >>
  /\ context_manager.current_iteration > 0
  /\ context_manager.user_intervention_count > 0
  /\ build_return[1].context.conversation_history # << >>

\* ---------------------------------------------------------------------
\* Claims C21..C30
\* ---------------------------------------------------------------------

\* C21: build_agent_context returns a context whose requirement text,
\* supplementary inputs and clarifying questions are the arguments of that
\* call, also while a context built from other arguments is cached and
\* within its TTL.
C21_ContextRebuiltForNewArguments ==
  build_return # << >>
    => /\ build_return[1].context.user_requirements
            = build_return[1].args.user_requirements
       /\ build_return[1].context.supplementary_inputs
            = build_return[1].args.supplementary_inputs
       /\ build_return[1].context.clarifying_questions
            = build_return[1].args.clarifying_questions

\* The failures the specification calls non-transient: a client error other
\* than 429 (an authentication error, a bad request) and a malformed
\* response.
NonTransient(outcome) ==
  \/ outcome.kind = "malformed"
  \/ outcome.kind = "status" /\ outcome.status_code \in { 400, 401 }

\* C22: a non-transient failure propagates on the attempt it occurs in: the
\* call raises there, with no retry and no backoff sleep after it.
C22_NonTransientFailurePropagates ==
  \A i \in 1..Len(glm_call.outcomes) :
    NonTransient(glm_call.outcomes[i])
      => /\ i = Len(glm_call.outcomes)
         /\ glm_call.state = "raised"
         /\ Len(glm_call.sleeps) = i - 1

\* The failures the client retries.
Retried(outcome) ==
  \/ outcome.kind \in { "timeout", "malformed", "network" }
  \/ /\ outcome.kind = "status"
     /\ outcome.json_body
     /\ should_retry(outcome.status_code)

EveryAttemptRetried ==
  \A i \in 1..Len(glm_call.outcomes) : Retried(glm_call.outcomes[i])

C24_ServerErrorIsRetried ==
  /\ glm_call.max_retries >= 1
  /\ Len(glm_call.outcomes) >= 1
  /\ glm_call.outcomes[1].kind = "status"
  /\ glm_call.outcomes[1].status_code \in 500..599
  /\ glm_call.outcomes[1].json_body
  => /\ Len(glm_call.outcomes) = 1 => glm_call.state = "running"
     /\ Len(glm_call.outcomes) >= 2 /\ glm_call.outcomes[2] = Completion
          => /\ glm_call.state = "returned"
             /\ Len(glm_call.outcomes) = 2

\* TeamLeadAgent.process returned from _handle_review, the handler that
\* classifies with _analyze_decision_type: the first round, or a round
\* before the last one.
OrdinaryReturn(ret) ==
  /\ ~ret.response.failed
  /\ \/ ret.current_iteration = 0
     \/ ret.current_iteration < ret.max_iterations - 1

\* the number of phrases of a list found in a text
Count(text, indicators) == Cardinality(text.kw \cap indicators)

\* C25: with a, r, q the numbers of approval, rejection and question
\* phrases found in the text, the ordinary classifier answers REJECTION if
\* r > a; otherwise APPROVAL if a > r and a > 0; otherwise QUESTION if
\* q > 2 or current_iteration < max_iterations - 1; otherwise REVIEW.
C25_OrdinaryClassifierRules ==
  \A i \in 1..Len(team_lead_return) :
    LET ret == team_lead_return[i]
        a == Count(ret.text, approval_indicators)
        r == Count(ret.text, rejection_indicators)
        q == Count(ret.text, question_indicators)
        early == ret.current_iteration < ret.max_iterations - 1
        message_type == ret.response.message_type
    IN  OrdinaryReturn(ret)
          => /\ r > a => message_type = REJECTION
             /\ ~(r > a) /\ a > r /\ a > 0 => message_type = APPROVAL
             /\ ~(r > a) /\ ~(a > r /\ a > 0) /\ (q > 2 \/ early)
                  => message_type = QUESTION
             /\ ~(r > a) /\ ~(a > r /\ a > 0) /\ ~(q > 2 \/ early)
                  => message_type = REVIEW

\* C25 witness: a text with as many approval as rejection phrases and three
\* question phrases, classified in a last round: the first two rules do
\* not apply and the question count decides.
C25_Witness ==
  \E i \in 1..Len(team_lead_return) :
    LET ret == team_lead_return[i]
    IN  /\ OrdinaryReturn(ret)
        /\ ret.current_iteration >= ret.max_iterations - 1
        /\ Count(ret.text, approval_indicators) = Count(ret.text, rejection_indicators)
        /\ Count(ret.text, question_indicators) > 2
        /\ ret.response.message_type = QUESTION

\* C26 as stated: a text without approval and rejection phrases, classified
\* with current_iteration < max_iterations - 1, is a QUESTION when it has
\* more than two question phrases and a REVIEW otherwise.
C26_ReviewWithoutQuestionPhrases ==
  \A i \in 1..Len(team_lead_return) :
    LET ret == team_lead_return[i]
    IN  /\ OrdinaryReturn(ret)
        /\ Count(ret.text, approval_indicators) = 0
        /\ Count(ret.text, rejection_indicators) = 0
        /\ ret.current_iteration < ret.max_iterations - 1
        => ret.response.message_type
             = IF Count(ret.text, question_indicators) > 2 THEN QUESTION ELSE REVIEW

\* C26 amended: a text without approval and rejection phrases is a QUESTION
\* whenever current_iteration < max_iterations - 1, whatever its number of
\* question phrases; in an ordinary classification with
\* current_iteration >= max_iterations - 1 it is a QUESTION with more than
\* two question phrases and a REVIEW otherwise.
C26_QuestionBeforeLastRound ==
  \A i \in 1..Len(team_lead_return) :
    LET ret == team_lead_return[i]
    IN  /\ OrdinaryReturn(ret)
        /\ Count(ret.text, approval_indicators) = 0
        /\ Count(ret.text, rejection_indicators) = 0
        => ret.response.message_type
             = IF ret.current_iteration < ret.max_iterations - 1 THEN QUESTION
               ELSE IF Count(ret.text, question_indicators) > 2 THEN QUESTION
               ELSE REVIEW

\* C26 witness: a text without any indicator phrase was classified before
\* the last round, as a QUESTION.
C26_Witness ==
  \E i \in 1..Len(team_lead_return) :
    LET ret == team_lead_return[i]
    IN  /\ OrdinaryReturn(ret)
        /\ ret.text.kw = {}
        /\ ret.current_iteration < ret.max_iterations - 1
        /\ ret.response.message_type = QUESTION

\* the ordered turn sequence of a ledger: sequence number, content and
\* category of every message, in the ledger's order
TurnSequence(messages) ==
  [i \in 1..Len(messages) |->
     [id |-> messages[i].id, turn_number |-> messages[i].turn_number,
      content |-> messages[i].content, message_type |-> messages[i].message_type]]

\* C27: importing an export leaves a ledger with the exported turn
\* sequence: the same turns in the same order with the same sequence
\* numbers, contents and categories, whatever the ledger held before.
C27_ImportReproducesExport ==
  conversation_return.method = "import_conversation"
    => TurnSequence(export_conversation(conversation_manager).messages)
         = TurnSequence(conversation_return.conversation_data.messages)

\* C28: delete_message on a turn that has children, called without cascade,
\* returns False and changes nothing of the manager; a turn with children
\* leaves the ledger only in a call with cascade.
C28_DeleteWithChildrenRefused ==
  [][\A message_id \in MessageIds(conversation_manager) :
       /\ MessageOf(conversation_manager, message_id).children_ids # << >>
       /\ conversation_return'.method = "delete_message"
       => /\ conversation_return'.message_id = message_id
             /\ ~conversation_return'.cascade
             => /\ ~conversation_return'.result
                /\ conversation_manager' = conversation_manager
          /\ ~HasMessage(conversation_manager', message_id)
             => conversation_return'.cascade]_vars

\* C28 witness: a deletion without cascade was refused for a turn that has a
\* child, and turn and child are still in the ledger.
C28_Witness ==
  /\ conversation_return.method = "delete_message"
  /\ ~conversation_return.cascade
  /\ ~conversation_return.result
  /\ HasMessage(conversation_manager, conversation_return.message_id)
  /\ \E child_id \in MessageIds(conversation_manager) :
       /\ MessageOf(conversation_manager, conversation_return.message_id).children_ids
            = << child_id >>
       /\ MessageOf(conversation_manager, child_id).parent_id
            = << conversation_return.message_id >>

\* the score the specification gives: one point for every query token found
\* in the content and a single bonus of two for the whole phrase
StatedScore(content, query) ==
  Cardinality({ i \in 1..Len(query) : ContainsWord(content, query[i]) })
    + (IF ContainsPhrase(content, query) THEN 2 ELSE 0)

\* C29: search_messages returns exactly the turns with a positive score,
\* each with one point per query token found in its content plus a single
\* bonus of two for the whole phrase, ordered by score descending and then
\* by recency descending.
C29_SearchScoresAndOrder ==
  conversation_return.method = "search_messages"
    => LET result == conversation_return.result
           query == conversation_return.query
       IN  /\ { result[i].id : i \in 1..Len(result) }
                = { id \in MessageIds(conversation_manager) :
                      StatedScore(MessageOf(conversation_manager, id).content, query) > 0 }
           /\ \A i \in 1..Len(result) :
                result[i].score
                  = StatedScore(MessageOf(conversation_manager, result[i].id).content, query)
           /\ \A i \in 1..(Len(result) - 1) : Before(result[i], result[i + 1])

\* C30: the corrected text is returned inside the validation result only:
\* the response the agent returns keeps the content that was validated.
C30_CorrectedTextNotSubstituted ==
  \A i \in 1..Len(validation_return) :
    validation_return[i].response_content = validation_return[i].content

\* ---------------------------------------------------------------------
\* Claims C31..C40
\* ---------------------------------------------------------------------

\* C31: the final prompt extracted from a non-empty approval text is never
\* empty: in the step that finalizes a session whose Team Lead output has
\* content, the final_prompt stored is not the empty string.
C31_FinalPromptNeverEmpty ==
  [][\A i \in Kept :
       /\ heap[i].state # COMPLETED
       /\ heap'[i].state = COMPLETED
       /\ get_last_team_lead_feedback(heap'[i]).kind # "empty"
       => heap'[i].final_prompt # ""]_vars

\* The agents of the recorded turns of a session, in order.
AgentSequence(session_data) ==
  [i \in 1..Len(session_data.conversation_history) |->
     session_data.conversation_history[i].agent_type]

\* No recorded turn of the session is a rejection, a question or a failure.
NoRejectionQuestionOrFailure(session_data) ==
  /\ NoFailedTurn(session_data)
  /\ \A i \in 1..Len(session_data.conversation_history) :
       session_data.conversation_history[i].message_type \notin { REJECTION, QUESTION }

EveryTeamLeadTurnApproves(session_data) ==
  \A i \in 1..Len(session_data.conversation_history) :
     session_data.conversation_history[i].agent_type = TEAM_LEAD
       => session_data.conversation_history[i].message_type = APPROVAL

C33_InputOnlyWhileWaiting ==
  [][\A session_id \in DOMAIN sessions \cap DOMAIN sessions' :
       sessions[session_id].status # "waiting_for_user_input"
         => sessions'[session_id].user_intervention_count
              = sessions[session_id].user_intervention_count]_vars

\* C34: cancelling a session that is still in progress leaves its status
\* cancelled and removes it from the engine's tracked sessions: after the
\* step that cancels such a session, active_sessions has no entry for it.
C34_CancelRemovesFromEngine ==
  [][\A session_id \in DOMAIN sessions \cap DOMAIN sessions' :
       /\ sessions[session_id].status \in
            { "active", "processing", "waiting_for_user_input" }
       /\ sessions'[session_id].status = "cancelled"
       => session_id \notin DOMAIN active_sessions']_vars

\* C35: after SessionRepository.cancel_session(session_id) returns True the
\* persisted status of that session is cancelled.
C35_CancelledAfterCancel ==
  (repository_return.method = "cancel_session" /\ repository_return.result = TRUE)
    => repository.sessions[repository_return.session_id].status = "cancelled"

\* The real admission times of the limiter that fall in the 60 seconds
\* starting at time t.
AdmittedIn(t) ==
  { i \in DOMAIN rate_limiter.admitted :
      t <= rate_limiter.admitted[i] /\ rate_limiter.admitted[i] < t + window }

\* C38: the rate limiter never admits more than requests_per_minute requests
\* within any 60-second window.
C38_AtMostLimitPerWindow ==
  \A i \in DOMAIN rate_limiter.admitted :
     Cardinality(AdmittedIn(rate_limiter.admitted[i])) <= rate_limiter.requests_per_minute

\* C36: a session's status agrees with its state: status is completed
\* exactly when state is COMPLETED and failed exactly when state is FAILED,
\* for every tracked session, after every step.
C36_StatusAgreesWithState ==
  \A session_id \in DOMAIN active_sessions :
     /\ SessionData(session_id).status = "completed"
          <=> SessionData(session_id).state = COMPLETED
     /\ SessionData(session_id).status = "failed"
          <=> SessionData(session_id).state = FAILED

\* C37: the sessions API and the user-input API act on one engine session
\* store: when the background processing of a user input runs for a session
\* that the sessions API started, the session is found and advanced, that
\* is, an engine call on the session_data the sessions API registered
\* reaches its await.
C37_UserInputAdvancesStartedSession ==
  [][\A session_id \in DOMAIN active_sessions :
       (ProcessesUserInput(session_id) /\ calls = EmptyBag
          /\ determine_next_agent(SessionData(session_id)) # "none")
       => \E c \in BagToSet(calls') :
            /\ Begins(c)
            /\ c.op = PROCESS_USER_INPUT
            /\ c.ref = active_sessions[session_id]]_vars

\* C39: after any sequence of add_message, delete_message and
\* import_conversation the manager's message_count equals the number of
\* stored messages.  (The per-agent and per-type counts are maintained on
\* the same lines as message_count and are not modelled.)
C39_MessageCountMatchesStore ==
  conversation_manager.message_count = Len(conversation_manager.messages)

\* C40: a session is started at most once: a start for a session id the
\* engine already tracks does not discard or reset the session; its
\* conversation history, agent outputs, current_iteration and state are
\* what they were.
C40_StartKeepsTrackedSession ==
  [][\A c \in BagToSet(calls') :
       (Begins(c) /\ c.op = START /\ c.session_id \in DOMAIN active_sessions)
       => LET before == SessionData(c.session_id)
              after == heap'[active_sessions'[c.session_id]]
          IN  /\ after.conversation_history = before.conversation_history
              /\ after.agent_outputs = before.agent_outputs
              /\ after.current_iteration = before.current_iteration
              /\ after.state = before.state]_vars

====
